---- MODULE Spec2Model ----
(***************************************************************************)
(* Model of the cached, filtered, paginated warehouse listing of           *)
(* src/server.js: GET /warehouses and DELETE /cache/warehouses, the Redis  *)
(* cache in front of them and the warehouse table behind them.             *)
(*                                                                         *)
(* JavaScript strings are sequences of one-character strings, so that      *)
(* parseInt, split, trim and the case-insensitive matches are computed     *)
(* and not assumed.  JavaScript numbers are records [t, v] with t one of   *)
(* "int", "nan", "null".                                                   *)
(***************************************************************************)
EXTENDS Integers, Sequences, FiniteSets, TLC

(***************************************************************************)
(* Strings                                                                 *)
(***************************************************************************)
DigitChars == <<"0", "1", "2", "3", "4", "5", "6", "7", "8", "9">>

IsDigit(c) == \E i \in 1..10 : DigitChars[i] = c

DigitVal(c) == (CHOOSE i \in 1..10 : DigitChars[i] = c) - 1

IsSpace(c) == c = " "

RECURSIVE SkipSpaces(_)
SkipSpaces(s) ==
  IF s # <<>> /\ IsSpace(Head(s)) THEN SkipSpaces(Tail(s)) ELSE s

RECURSIVE DropTrailingSpaces(_)
DropTrailingSpaces(s) ==
  IF s # <<>> /\ IsSpace(s[Len(s)])
    THEN DropTrailingSpaces(SubSeq(s, 1, Len(s) - 1))
    ELSE s

\* String.prototype.trim
Trim(s) == DropTrailingSpaces(SkipSpaces(s))

\* String.prototype.includes(',')
IncludesComma(s) == \E i \in 1..Len(s) : s[i] = ","

\* String.prototype.split(','): the pieces between commas, empty ones kept
RECURSIVE SplitFrom(_, _)
SplitFrom(s, cur) ==
  IF s = <<>> THEN <<cur>>
  ELSE IF Head(s) = "," THEN <<cur>> \o SplitFrom(Tail(s), <<>>)
  ELSE SplitFrom(Tail(s), Append(cur, Head(s)))

SplitComma(s) == SplitFrom(s, <<>>)

UpperLetters ==
  <<"A", "B", "C", "D", "E", "F", "G", "H", "I", "J", "K", "L", "M",
    "N", "O", "P", "Q", "R", "S", "T", "U", "V", "W", "X", "Y", "Z">>

LowerLetters ==
  <<"a", "b", "c", "d", "e", "f", "g", "h", "i", "j", "k", "l", "m",
    "n", "o", "p", "q", "r", "s", "t", "u", "v", "w", "x", "y", "z">>

LowerChar(c) ==
  IF \E i \in 1..26 : UpperLetters[i] = c
    THEN LowerLetters[CHOOSE i \in 1..26 : UpperLetters[i] = c]
    ELSE c

Lower(s) == [i \in 1..Len(s) |-> LowerChar(s[i])]

\* sub occurs in s, letter case ignored
ContainsInsensitive(s, sub) ==
  \E i \in 0..(Len(s) - Len(sub)) :
    Lower(SubSeq(s, i + 1, i + Len(sub))) = Lower(sub)

EqualsInsensitive(s, t) == Lower(s) = Lower(t)

(***************************************************************************)
(* Numbers                                                                 *)
(***************************************************************************)
Int_(n) == [t |-> "int", v |-> n]

NaN == [t |-> "nan", v |-> 0]

Null == [t |-> "null", v |-> 0]

RECURSIVE DigitsValue(_, _)
DigitsValue(s, acc) ==
  IF s # <<>> /\ IsDigit(Head(s))
    THEN DigitsValue(Tail(s), 10 * acc + DigitVal(Head(s)))
    ELSE acc

\* parseInt of a string: leading blanks skipped, an optional sign, then the
\* longest run of digits; NaN when there is no digit
parseIntStr(s) ==
  LET t == SkipSpaces(s)
      neg == t # <<>> /\ Head(t) = "-"
      u == IF t # <<>> /\ (Head(t) = "-" \/ Head(t) = "+") THEN Tail(t) ELSE t
  IN IF u # <<>> /\ IsDigit(Head(u))
       THEN Int_(IF neg THEN 0 - DigitsValue(u, 0) ELSE DigitsValue(u, 0))
       ELSE NaN

(***************************************************************************)
(* The query string.  A raw query is the sequence of name=value pairs of   *)
(* the URL; req.query gives a name its string, or the array of its values  *)
(* in order of appearance when the name is repeated.                       *)
(***************************************************************************)
Undef == [k |-> "undef", s |-> <<>>, a |-> <<>>]

Str(s) == [k |-> "str", s |-> s, a |-> <<>>]

Arr(a) == [k |-> "arr", s |-> <<>>, a |-> a]

RECURSIVE ValuesOf(_, _)
ValuesOf(raw, name) ==
  IF raw = <<>> THEN <<>>
  ELSE IF Head(raw)[1] = name
    THEN <<Head(raw)[2]>> \o ValuesOf(Tail(raw), name)
    ELSE ValuesOf(Tail(raw), name)

\* req.query[name]
ReqQuery(raw, name) ==
  LET vs == ValuesOf(raw, name)
  IN IF Len(vs) = 0 THEN Undef
     ELSE IF Len(vs) = 1 THEN Str(vs[1])
     ELSE Arr(vs)

\* JavaScript truthiness of a query value: undefined and '' are falsy
Truthy(v) == v.k = "arr" \/ (v.k = "str" /\ v.s # <<>>)

RECURSIVE JoinComma(_)
JoinComma(a) ==
  IF a = <<>> THEN <<>>
  ELSE IF Len(a) = 1 THEN a[1]
  ELSE a[1] \o <<",">> \o JoinComma(Tail(a))

\* parseInt(value): an array is first converted to its comma-joined string
parseInt(v) ==
  CASE v.k = "undef" -> NaN
    [] v.k = "str" -> parseIntStr(v.s)
    [] v.k = "arr" -> parseIntStr(JoinComma(v.a))

\* parseInt(x) || dflt
OrDefault(n, dflt) == IF n.t = "int" /\ n.v # 0 THEN n.v ELSE dflt

DefaultPage == 1

DefaultPageSize == 10

page(raw) == OrDefault(parseInt(ReqQuery(raw, "page")), DefaultPage)

pageSize(raw) == OrDefault(parseInt(ReqQuery(raw, "pageSize")), DefaultPageSize)

\* skip with the page taken as 0-based
skipFromZero(raw) == page(raw) * pageSize(raw)

skip(raw) == (page(raw) - 1) * pageSize(raw)

\* parseMultiValue of a truthy value
parseMultiValue(v) ==
  IF v.k = "arr" THEN v.a
  ELSE IF IncludesComma(v.s)
    THEN [i \in 1..Len(SplitComma(v.s)) |-> Trim(SplitComma(v.s)[i])]
    ELSE <<v.s>>

filterFields ==
  <<"city", "state", "warehouseType", "zone", "contactPerson", "compliances">>

\* the predicate of a loop that never uses contains
FieldFilterAlwaysIn(values) == [op |-> "in", vals |-> values]

\* the predicate the loop stores in filters[field]
FieldFilter(values) ==
  IF Len(values) > 1
    THEN [op |-> "in", vals |-> values]
    ELSE [op |-> "contains", vals |-> values]

\* the filters object as its entries <<field, predicate>> in insertion order
RECURSIVE FiltersFrom(_, _)
FiltersFrom(raw, i) ==
  IF i > Len(filterFields) THEN <<>>
  ELSE LET v == ReqQuery(raw, filterFields[i])
       IN (IF Truthy(v) /\ Len(parseMultiValue(v)) >= 1
             THEN << <<filterFields[i], FieldFilter(parseMultiValue(v))>> >>
             ELSE <<>>)
          \o FiltersFrom(raw, i + 1)

\* filters.address: the value as it came
addressFilter(raw) ==
  IF Truthy(ReqQuery(raw, "address"))
    THEN << <<"address", [op |-> "contains",
                          vals |-> <<ReqQuery(raw, "address").s>>]>> >>
    ELSE <<>>

\* filters.ratePerSqft and filters.clearHeightFt: gte and lte are the query
\* values as they came, Undef when the parameter is absent or empty
rangeFilter(raw, column, minName, maxName) ==
  LET mn == ReqQuery(raw, minName)
      mx == ReqQuery(raw, maxName)
  IN IF Truthy(mn) \/ Truthy(mx)
       THEN << <<column, [op |-> "range",
                          gte |-> IF Truthy(mn) THEN mn ELSE Undef,
                          lte |-> IF Truthy(mx) THEN mx ELSE Undef]>> >>
       ELSE <<>>

\* filters.warehouseData: { fireNocAvailable: value === 'true' }
fireNocFilter(raw) ==
  LET v == ReqQuery(raw, "fireNocAvailable")
  IN IF v # Undef
       THEN << <<"warehouseData",
                 [op |-> "is", fireNocAvailable |-> v = Str(<<"t", "r", "u", "e">>)]>> >>
       ELSE <<>>

filters(raw) ==
  FiltersFrom(raw, 1)
  \o addressFilter(raw)
  \o rangeFilter(raw, "ratePerSqft", "minBudget", "maxBudget")
  \o rangeFilter(raw, "clearHeightFt", "minClearHeight", "maxClearHeight")
  \o fireNocFilter(raw)

SpaceBound(v) == IF Truthy(v) THEN parseInt(v) ELSE Null

minSpace(raw) == SpaceBound(ReqQuery(raw, "minSpace"))

maxSpace(raw) == SpaceBound(ReqQuery(raw, "maxSpace"))

\* JSON.stringify of a number or null: NaN is written as null
JsonNumber(n) == IF n.t = "nan" THEN Null ELSE n

\* JSON.stringify({ ...filters, minSpace, maxSpace }): the text is determined
\* by, and determines, the entries in order and the two written numbers
filterKey(raw) ==
  [filters |-> filters(raw),
   minSpace |-> JsonNumber(minSpace(raw)),
   maxSpace |-> JsonNumber(maxSpace(raw))]

\* `warehouses:page:${page}:size:${pageSize}:filters:${filterKey}`
cacheKey(raw) ==
  [prefix |-> "warehouses",
   page |-> page(raw),
   size |-> pageSize(raw),
   filters |-> filterKey(raw)]

needsSpaceFilter(raw) == minSpace(raw) # Null \/ maxSpace(raw) # Null

fetchSize(raw) == IF needsSpaceFilter(raw) THEN pageSize(raw) * 3 ELSE pageSize(raw)

Max(a, b) == IF a >= b THEN a ELSE b

fetchSkip(raw) ==
  IF needsSpaceFilter(raw)
    THEN Max(0, (page(raw) - 1) * pageSize(raw) * 2)
    ELSE skip(raw)

(***************************************************************************)
(* The warehouse table and the store query                                 *)
(***************************************************************************)
NoData == "none"

\* a row of the Warehouse table; warehouseData is the related WarehouseData's
\* fireNocAvailable ("true", "false"), or NoData when there is no related row
\* ratePerSqft and clearHeightFt are text columns and photos is a text or null
Warehouse(id, visibility, city, spaces, wd, rate, photos) ==
  [id |-> id, visibility |-> visibility, city |-> city, state |-> <<"M", "H">>,
   warehouseType |-> <<"C">>, zone |-> <<"A">>, contactPerson |-> <<"B", "a">>,
   compliances |-> <<"A", "B", "C">>, totalSpaceSqft |-> spaces,
   warehouseData |-> wd, address |-> <<"R", "d">>, ratePerSqft |-> rate,
   clearHeightFt |-> <<"3", "0">>, photos |-> photos]

\* the rank of a character in the order the database compares text by:
\* digits, then letters
CharRank(c) ==
  IF IsDigit(c) THEN DigitVal(c)
  ELSE IF \E i \in 1..26 : LowerLetters[i] = LowerChar(c)
    THEN 10 + (CHOOSE i \in 1..26 : LowerLetters[i] = LowerChar(c))
    ELSE 0

\* a <= b for text values: the first differing character decides
RECURSIVE TextLte(_, _)
TextLte(a, b) ==
  IF a = <<>> THEN TRUE
  ELSE IF b = <<>> THEN FALSE
  ELSE IF CharRank(Head(a)) # CharRank(Head(b))
    THEN CharRank(Head(a)) < CharRank(Head(b))
    ELSE TextLte(Tail(a), Tail(b))

\* one predicate of the where clause: in and contains with mode
\* 'insensitive', gte and lte on a text column, and the flag of the related
\* WarehouseData row (no related row: no match)
MatchesField(value, f) ==
  CASE f.op = "in" ->
         \E i \in 1..Len(f.vals) : EqualsInsensitive(value, f.vals[i])
    [] f.op = "contains" -> ContainsInsensitive(value, f.vals[1])
    [] f.op = "range" ->
         /\ f.gte = Undef \/ TextLte(f.gte.s, value)
         /\ f.lte = Undef \/ TextLte(value, f.lte.s)
    [] f.op = "is" ->
         value = (IF f.fireNocAvailable THEN "true" ELSE "false")

\* where: Object.keys(filters).length > 0 ? filters : undefined
Matches(w, fs) == \A i \in 1..Len(fs) : MatchesField(w[fs[i][1]], fs[i][2])

\* orderBy: { id: 'desc' }
RECURSIVE OrderDesc(_)
OrderDesc(ws) ==
  IF ws = {} THEN <<>>
  ELSE LET top == CHOOSE w \in ws : \A o \in ws : o.id <= w.id
       IN <<top>> \o OrderDesc(ws \ {top})

\* skip / take of a query, skip >= 0: a negative take counts from the end of
\* the ordered rows and keeps their order
SkipTake(rows, sk, tk) ==
  IF tk >= 0
    THEN SubSeq(rows, sk + 1, IF sk + tk <= Len(rows) THEN sk + tk ELSE Len(rows))
    ELSE SubSeq(rows, Max(1, Len(rows) - sk + tk + 1), Len(rows) - sk)

\* the select clause: visibility is not among the selected columns
Select(w) ==
  [id |-> w.id, city |-> w.city, state |-> w.state,
   totalSpaceSqft |-> w.totalSpaceSqft, warehouseType |-> w.warehouseType,
   zone |-> w.zone, contactPerson |-> w.contactPerson,
   compliances |-> w.compliances, warehouseData |-> w.warehouseData,
   address |-> w.address, ratePerSqft |-> w.ratePerSqft,
   clearHeightFt |-> w.clearHeightFt, photos |-> w.photos]

\* prisma.warehouse.findMany({ skip, take, where, orderBy, select })
findMany(table, raw) ==
  LET hits == OrderDesc({w \in table : Matches(w, filters(raw))})
      page_ == SkipTake(hits, fetchSkip(raw), fetchSize(raw))
  IN [i \in 1..Len(page_) |-> Select(page_[i])]

\* prisma.warehouse.count({ where })
count(table, raw) == Cardinality({w \in table : Matches(w, filters(raw))})

\* Prisma rejects a negative skip before it reaches the database
QueryRejected(raw) == fetchSkip(raw) < 0

(***************************************************************************)
(* Formatting, post-filter, pagination                                     *)
(***************************************************************************)
(***************************************************************************)
(* JSON.parse of a stored text.  A parsed value is a record with k one of  *)
(* "null", "bool", "num", "str", "arr", "obj".  The texts have no blanks,  *)
(* escapes, fractions or exponents.                                        *)
(***************************************************************************)
ParseFailed == [ok |-> FALSE, value |-> [k |-> "null"], rest |-> <<>>]

Parsed(value, rest) == [ok |-> TRUE, value |-> value, rest |-> rest]

StartsWith(s, prefix) ==
  Len(s) >= Len(prefix) /\ SubSeq(s, 1, Len(prefix)) = prefix

\* the characters of s before its first double quote
RECURSIVE UpToQuote(_)
UpToQuote(s) ==
  IF s = <<>> \/ Head(s) = "\"" THEN <<>> ELSE <<Head(s)>> \o UpToQuote(Tail(s))

\* the leading digits of s
RECURSIVE LeadingDigits(_)
LeadingDigits(s) ==
  IF s # <<>> /\ IsDigit(Head(s))
    THEN <<Head(s)>> \o LeadingDigits(Tail(s))
    ELSE <<>>

\* s starts with a double quote and chars are the characters up to the next
Quoted(s, chars) ==
  IF Len(chars) < Len(Tail(s))
    THEN Parsed([k |-> "str", s |-> chars], SubSeq(s, Len(chars) + 3, Len(s)))
    ELSE ParseFailed

\* a string literal at the start of s: "chars"
ParseString(s) ==
  IF s # <<>> /\ Head(s) = "\"" THEN Quoted(s, UpToQuote(Tail(s))) ELSE ParseFailed

\* an integer at the start of s: -?(0|[1-9][0-9]*)
ParseNumber(s) ==
  LET neg == s # <<>> /\ Head(s) = "-"
      u == IF neg THEN Tail(s) ELSE s
      ds == LeadingDigits(u)
  IN IF ds = <<>> \/ (Len(ds) > 1 /\ Head(ds) = "0") THEN ParseFailed
     ELSE Parsed([k |-> "num",
                  v |-> IF neg THEN 0 - DigitsValue(ds, 0) ELSE DigitsValue(ds, 0)],
                 SubSeq(u, Len(ds) + 1, Len(u)))

\* a value that is followed by more text is no JSON text
WholeText(parsed) ==
  IF parsed.ok /\ parsed.rest = <<>> THEN parsed ELSE ParseFailed

RECURSIVE ParseValue(_), ParseItems(_, _), ParseMembers(_, _)
\* the JSON value at the start of s and the text after it
ParseValue(s) ==
  IF s = <<>> THEN ParseFailed
  ELSE IF Head(s) = "[" THEN
    IF StartsWith(s, <<"[", "]">>)
      THEN Parsed([k |-> "arr", a |-> <<>>], SubSeq(s, 3, Len(s)))
      ELSE ParseItems(Tail(s), <<>>)
  ELSE IF Head(s) = "{" THEN
    IF StartsWith(s, <<"{", "}">>)
      THEN Parsed([k |-> "obj", a |-> <<>>], SubSeq(s, 3, Len(s)))
      ELSE ParseMembers(Tail(s), <<>>)
  ELSE IF Head(s) = "\"" THEN ParseString(s)
  ELSE IF StartsWith(s, <<"t", "r", "u", "e">>)
    THEN Parsed([k |-> "bool", v |-> TRUE], SubSeq(s, 5, Len(s)))
  ELSE IF StartsWith(s, <<"f", "a", "l", "s", "e">>)
    THEN Parsed([k |-> "bool", v |-> FALSE], SubSeq(s, 6, Len(s)))
  ELSE IF StartsWith(s, <<"n", "u", "l", "l">>)
    THEN Parsed([k |-> "null"], SubSeq(s, 5, Len(s)))
  ELSE ParseNumber(s)

\* the elements of an array after its [ or a comma, up to its ]
ParseItems(s, acc) ==
  LET item == ParseValue(s)
  IN IF ~item.ok \/ item.rest = <<>> THEN ParseFailed
     ELSE IF Head(item.rest) = ","
       THEN ParseItems(Tail(item.rest), Append(acc, item.value))
     ELSE IF Head(item.rest) = "]"
       THEN Parsed([k |-> "arr", a |-> Append(acc, item.value)], Tail(item.rest))
     ELSE ParseFailed

\* the members "name":value of an object after its { or a comma, up to its }
ParseMembers(s, acc) ==
  LET name == ParseString(s)
      item == IF name.ok /\ name.rest # <<>> /\ Head(name.rest) = ":"
                THEN ParseValue(Tail(name.rest))
                ELSE ParseFailed
      member == <<name.value.s, item.value>>
  IN IF ~item.ok \/ item.rest = <<>> THEN ParseFailed
     ELSE IF Head(item.rest) = ","
       THEN ParseMembers(Tail(item.rest), Append(acc, member))
     ELSE IF Head(item.rest) = "}"
       THEN Parsed([k |-> "obj", a |-> Append(acc, member)], Tail(item.rest))
     ELSE ParseFailed

\* JSON.parse(text): the whole text must be one value; ok is FALSE when
\* JSON.parse throws
JSONParseText(s) == WholeText(ParseValue(s))

\* try { parsed = JSON.parse(text); Array.isArray(parsed) ? parsed : [parsed] }
\* catch { [text] }
ArrayOf(text, parsed) ==
  IF ~parsed.ok THEN <<[k |-> "str", s |-> text]>>
  ELSE IF parsed.value.k = "arr" THEN parsed.value.a
  ELSE <<parsed.value>>

\* parsedPhotos of the listing: every truthy stored text goes to JSON.parse
parsedPhotos(photos) ==
  IF photos = Null \/ photos.s = <<>> THEN <<>>
  ELSE ArrayOf(photos.s, JSONParseText(photos.s))

\* w.warehouseData?.fireNocAvailable
FireNoc(w) == IF w.warehouseData = NoData THEN "undefined" ELSE w.warehouseData

Format(w) ==
  [id |-> w.id, city |-> w.city, state |-> w.state,
   totalSpaceSqft |-> w.totalSpaceSqft, warehouseType |-> w.warehouseType,
   zone |-> w.zone, contactPerson |-> w.contactPerson,
   compliances |-> w.compliances, fireNocAvailable |-> FireNoc(w),
   address |-> w.address, ratePerSqft |-> w.ratePerSqft,
   clearHeightFt |-> w.clearHeightFt, photos |-> parsedPhotos(w.photos)]

\* space >= bound and space <= bound of JavaScript: false against NaN
Gte(space, bound) == bound.t = "int" /\ space >= bound.v

Lte(space, bound) == bound.t = "int" /\ space <= bound.v

\* the callback with || where the code has &&
SpaceOkEither(space, mn, mx) ==
  IF mn # Null /\ mx # Null THEN Gte(space, mn) \/ Lte(space, mx)
  ELSE IF mn # Null THEN Gte(space, mn)
  ELSE IF mx # Null THEN Lte(space, mx)
  ELSE TRUE

\* the callback of spaces.some(...)
SpaceOk(space, mn, mx) ==
  IF mn # Null /\ mx # Null THEN Gte(space, mn) /\ Lte(space, mx)
  ELSE IF mn # Null THEN Gte(space, mn)
  ELSE IF mx # Null THEN Lte(space, mx)
  ELSE TRUE

\* the callback of formattedWarehouses.filter(...)
PassesSpace(w, mn, mx) ==
  \E i \in 1..Len(w.totalSpaceSqft) : SpaceOk(w.totalSpaceSqft[i], mn, mx)

PostFilter(rows, raw) ==
  IF minSpace(raw) # Null \/ maxSpace(raw) # Null
    THEN SelectSeq(rows, LAMBDA w : PassesSpace(w, minSpace(raw), maxSpace(raw)))
    ELSE rows

\* Array.prototype.slice(start, end)
Slice(rows, start, end) ==
  LET n == Len(rows)
      from == IF start < 0 THEN Max(n + start, 0) ELSE IF start > n THEN n ELSE start
      to == IF end < 0 THEN Max(n + end, 0) ELSE IF end > n THEN n ELSE end
  IN SubSeq(rows, from + 1, to)

\* a / b rounded down
Floor(a, b) == a \div b

\* Math.ceil(a / b), b # 0
Ceil(a, b) == IF b > 0 THEN 0 - ((0 - a) \div b) ELSE 0 - (a \div (0 - b))

\* responseData, from the rows and the count the transaction returned
responseData(raw, warehouses, totalWarehouses) ==
  LET formatted == PostFilter([i \in 1..Len(warehouses) |-> Format(warehouses[i])], raw)
      startIndex == IF needsSpaceFilter(raw) THEN (page(raw) - 1) * pageSize(raw) ELSE 0
      paginated == IF needsSpaceFilter(raw)
                     THEN Slice(formatted, startIndex, startIndex + pageSize(raw))
                     ELSE formatted
      finalTotalCount == IF needsSpaceFilter(raw) THEN Len(formatted) ELSE totalWarehouses
  IN [data |-> paginated,
      pagination |-> [totalItems |-> finalTotalCount,
                      totalPages |-> Ceil(finalTotalCount, pageSize(raw)),
                      currentPage |-> page(raw),
                      pageSize |-> pageSize(raw)]]

(***************************************************************************)
(* JSON text.  A text is modelled by the value it denotes: a property      *)
(* whose value is undefined is left out of the text ("absent"), and        *)
(* reading a property the text does not have gives undefined.              *)
(***************************************************************************)
JsonRow(w) ==
  [w EXCEPT !.fireNocAvailable = IF @ = "undefined" THEN "absent" ELSE @]

ParsedRow(w) ==
  [w EXCEPT !.fireNocAvailable = IF @ = "absent" THEN "undefined" ELSE @]

JSONStringify(body) ==
  [body EXCEPT !.data = [i \in 1..Len(body.data) |-> JsonRow(body.data[i])]]

JSONParse(text) ==
  [text EXCEPT !.data = [i \in 1..Len(text.data) |-> ParsedRow(text.data[i])]]

(***************************************************************************)
(* Inputs: the table at start and the query strings clients send           *)
(***************************************************************************)
InitialTable ==
  {Warehouse(3, TRUE, <<"A", "b">>, <<100, 500>>, "true", <<"3", "0">>,
             Str(<<"[", "\"", "a", "\"", ",", "\"", "b", "\"", "]">>)),
   Warehouse(2, TRUE, <<"B">>, <<600>>, NoData, <<"2", "0">>,
             Str(<<"h", "/", "x">>)),
   Warehouse(1, TRUE, <<"a", "B">>, <<50>>, "false", <<"1", "0">>, Null)}

\* a row another actor may insert
NewWarehouse == Warehouse(4, TRUE, <<"C">>, <<>>, NoData, <<"4", "0">>, Null)

P(name, value) == <<name, value>>

QAll == <<>>

QSize2 == <<P("pageSize", <<"2">>)>>

QPage2 == <<P("page", <<"2">>), P("pageSize", <<"2">>)>>

QPage3 == <<P("pageSize", <<"1">>), P("page", <<"3">>)>>

QMinPage2 == <<P("minSpace", <<"5", "0">>), P("page", <<"2">>), P("pageSize", <<"1">>)>>

QSpace == <<P("minSpace", <<"2", "0", "0">>), P("maxSpace", <<"5", "5", "0">>)>>

QMin == <<P("minSpace", <<"2", "0", "0">>)>>

QMax == <<P("maxSpace", <<"1", "0", "0">>), P("pageSize", <<"2">>)>>

QBadMin == <<P("minSpace", <<"a", "b", "c">>)>>

QCityComma == <<P("city", <<"A", "b", ",", " ", "B">>)>>

QCityRepeat == <<P("city", <<"A", "b">>), P("city", <<"B">>)>>

QCityReversed == <<P("city", <<"B">>), P("city", <<"A", "b">>)>>

QCityDup == <<P("city", <<"A", "b", ",", "B", ",", "B">>)>>

QCityOne == <<P("state", <<"m">>), P("city", <<"b">>)>>

\* the query strings of one run
Workloads ==
  {{QAll, QBadMin}, {QSize2, QPage2}, {QSpace, QMin}, {QMax, QCityOne},
   {QCityComma, QCityReversed}, {QCityRepeat, QCityDup}, {QPage3, QMinPage2}}

\* the query strings of a run that follows the life of cache entries
CacheWorkloads == {{QAll, QBadMin}}

\* the query strings of a run whose requests overlap one another and the
\* commits of other actors
RaceWorkloads == {{QAll}, {QSize2, QPage2}}

\* what the photos column of a row may hold besides null, a URL and an array
\* text: '', '123', 'true', 'null', '{"a":1}', '[a', '"u"'
StoredPhotos ==
  {Str(<<>>), Str(<<"1", "2", "3">>), Str(<<"t", "r", "u", "e">>),
   Str(<<"n", "u", "l", "l">>),
   Str(<<"{", "\"", "a", "\"", ":", "1", "}">>),
   Str(<<"[", "a">>), Str(<<"\"", "u", "\"">>)}

\* the table at start with the photos of row 1 set to each of these
PhotoTables ==
  {{IF w.id = 1 THEN [w EXCEPT !.photos = photos] ELSE w : w \in InitialTable} :
     photos \in StoredPhotos \cup {Null}}

\* the query strings of a run over filters and page numbers of every form:
\* fireNocAvailable=abc | fireNocAvailable=true
\* minBudget=abc | minBudget=20&maxBudget=30
\* maxClearHeight=x | fireNocAvailable=false
\* address=R,d | city=ab,B&address=r&state=&zone=a
\* page=-1&minSpace=50 | page=abc&pageSize=0
\* pageSize=-1&minSpace=50 | pageSize=2&minSpace=50
FilterWorkloads ==
  {{<<P("fireNocAvailable", <<"a", "b", "c">>)>>,
    <<P("fireNocAvailable", <<"t", "r", "u", "e">>)>>},
   {<<P("minBudget", <<"a", "b", "c">>)>>,
    <<P("minBudget", <<"2", "0">>), P("maxBudget", <<"3", "0">>)>>},
   {<<P("maxClearHeight", <<"x">>)>>,
    <<P("fireNocAvailable", <<"f", "a", "l", "s", "e">>)>>},
   {<<P("address", <<"R", ",", "d">>)>>,
    <<P("city", <<"a", "b", ",", "B">>), P("address", <<"r">>), P("state", <<>>),
      P("zone", <<"a">>)>>},
   {<<P("page", <<"-", "1">>), P("minSpace", <<"5", "0">>)>>,
    <<P("page", <<"a", "b", "c">>), P("pageSize", <<"0">>)>>},
   {<<P("pageSize", <<"-", "1">>), P("minSpace", <<"5", "0">>)>>,
    <<P("pageSize", <<"2">>), P("minSpace", <<"5", "0">>)>>}}

\* the values CACHE_TTL may have in the environment
TtlSettings == {Str(<<"0">>), Str(<<"1">>)}

MaxTicks == 1

MaxStoreWrites == 1

MaxRequests == 2

\* the handlers of GET /warehouses that may run at the same time
Req == {1, 2}

(***************************************************************************)
(* POST /enquiries and POST /customer-requests: request bodies and rows    *)
(***************************************************************************)
\* how many POST requests a run receives
MaxPosts == 2

\* a request without a JSON body: req.body is undefined
NoBody == [json |-> FALSE]

\* a number isValidPhoneNumber accepts
Phone == <<"+", "9", "1", "1", "2", "3", "4", "5">>

\* the JSON value null
JsNull == [k |-> "null", s |-> <<>>, a |-> <<>>]

\* the bodies clients post to /enquiries: complete ones, with and without an
\* email and blanks around the values, and one failing each validation
EnquiryBodies ==
  { NoBody,
    [json |-> TRUE, name |-> Str(<<"A">>), phoneNumber |-> Str(Phone),
     email |-> Undef, source |-> Str(<<"w">>)],
    [json |-> TRUE, name |-> Str(<<" ", "A", " ">>),
     phoneNumber |-> Str(<<" ">> \o Phone),
     email |-> Str(<<"a", "@", "b", " ">>), source |-> Str(<<"w", " ">>)],
    [json |-> TRUE, name |-> Str(<<" ">>), phoneNumber |-> Str(Phone),
     email |-> Undef, source |-> Str(<<"w">>)],
    [json |-> TRUE, name |-> Str(<<"A">>),
     phoneNumber |-> Str(<<"1", "2", "3">>),
     email |-> Undef, source |-> Str(<<"w">>)],
    [json |-> TRUE, name |-> Str(<<"A">>), phoneNumber |-> Str(Phone),
     email |-> Arr(<<>>), source |-> Str(<<"w">>)],
    [json |-> TRUE, name |-> Str(<<"A">>), phoneNumber |-> Str(Phone),
     email |-> Undef, source |-> Undef] }

\* the bodies clients post to /customer-requests: two complete ones and two
\* with two invalid fields each
CustomerRequestBodies ==
  { NoBody,
    [json |-> TRUE, full_name |-> Str(<<"J">>), phone_number |-> Str(Phone),
     company_name |-> Str(<<"C">>), preferred_location |-> Str(<<"D">>),
     additional_requirements |-> Str(<<"n">>)],
    [json |-> TRUE, full_name |-> Str(<<"J", " ">>),
     phone_number |-> Str(Phone \o <<" ">>),
     company_name |-> Str(<<"C">>), preferred_location |-> Str(<<"D">>),
     additional_requirements |-> Str(<<" ", "n">>)],
    [json |-> TRUE, full_name |-> Str(<<" ">>),
     phone_number |-> Str(<<"1", "2">>),
     company_name |-> Str(<<"C">>), preferred_location |-> Str(<<"D">>),
     additional_requirements |-> Str(<<"n">>)],
    [json |-> TRUE, full_name |-> Str(<<"J">>), phone_number |-> Str(Phone),
     company_name |-> Undef, preferred_location |-> Str(<<"D">>),
     additional_requirements |-> Arr(<<>>)] }

\* how many calls of sendEmail a run makes
MaxMailCalls == 4

\* how many hours pass in a run
MaxHours == 5

\* the calendar, scaled down: a day of two hours and a month of two days; the
\* server starts at the beginning of a month
HoursPerDay == 2

DaysPerMonth == 2

\* the next full hour after time t
getNextHourReset(t) == t + 1

\* the next midnight after time t
getNextDayReset(t) == ((t \div HoursPerDay) + 1) * HoursPerDay

\* the first of the month after time t
getNextMonthReset(t) ==
  ((t \div (HoursPerDay * DaysPerMonth)) + 1) * (HoursPerDay * DaysPerMonth)

MailCalls == 1..MaxMailCalls

\* a call of sendEmail that has not begun
NewMail == [pc |-> "new", i |-> 0, results |-> <<>>, result |-> [none |-> TRUE]]

\* how many requests go through the authentication chain in a run
MaxAuthRequests == 2

\* no request has gone through the chain
NoAuth == [pc |-> "idle", count |-> 0, header |-> [k |-> "undef"],
           user |-> [none |-> TRUE], res |-> [status |-> 0], reached |-> FALSE]

(***************************************************************************)
(* State                                                                   *)
(***************************************************************************)
VARIABLES
  store,      \* the Warehouse table: a set of rows
  cache,      \* Redis: a set of entries, at most one per key
  CACHE_TTL,  \* process.env.CACHE_TTL
  workload,   \* the query strings clients send in this run
  pc,         \* where the handler of each GET /warehouses request stands
  query,      \* its raw query string
  fetched,    \* what its transaction returned, with the table state it read
  res,        \* the response it sent
  trace,      \* what its cache calls did
  dpc,        \* where the DELETE /cache/warehouses handler stands
  keys,       \* the keys its scan has collected
  todo,       \* the keys that were present when its scan began
  dres,       \* the response it sent
  quiet,      \* the last DELETE answered 200 and no GET ran during or since
  afterClear, \* per handler: its request is the first after such a DELETE
  n,          \* how many requests, ticks and table writes happened
  lookup,     \* the last call of getWarehouseById and its response
  outage,     \* Redis has stopped answering: calls neither return nor throw
  enquiry,    \* the Enquiry table
  customer_request, \* the customer_request table
  post,       \* the handler of the POST request being served
  answered,   \* the POST requests answered so far, in order
  immediates, \* the callbacks setImmediate has queued
  calls,      \* the calls of the notification service, in order
  logged,     \* the enquiries whose notification failure was logged
  unhandled,  \* the records whose callback ended in an unhandled rejection
  emailCounts, \* the notification service's counters of emails sent
  resetDate,  \* the time at which each counter's window ends
  now,        \* the time, in hours since the server started
  configured, \* the four EMAILJS_* settings are all set
  auth,       \* the request in the verifyToken, requireAdmin chain, or the last one
  mail        \* the calls of sendEmail: position, results so far, return value

vars == <<store, cache, CACHE_TTL, workload, pc, query, fetched, res, trace,
          dpc, keys, todo, dres, quiet, afterClear, n, lookup, outage,
          enquiry, customer_request, post, answered, immediates, calls,
          logged, unhandled, emailCounts, resetDate, now, configured, mail, auth>>

\* the state of the notification service
mailer == <<emailCounts, resetDate, now, configured, mail>>

\* the state of POST /enquiries and POST /customer-requests
forms == <<enquiry, customer_request, post, answered, immediates, calls,
           logged, unhandled>>

\* the state of the other endpoints, which the listing and the cache clear
\* leave alone
side == <<lookup, outage, forms, mailer, auth>>

\* the state of the listing and the cache clear, but for the table
listing == <<cache, CACHE_TTL, workload, pc, query, fetched, res, trace,
             dpc, keys, todo, dres, quiet, afterClear, n>>

NoLookup == [id |-> <<>>, res |-> [status |-> 0], table |-> {}, failed |-> FALSE]

NoRes == [status |-> 0]

NoFetch == [done |-> FALSE]

NoEntry == [none |-> TRUE]

\* read, write: how the cache calls ended; entry: what the cache held for the
\* key at the read; queried, storeFailed: whether the transaction ran, and
\* failed; clear: "new" if findMany had answered when the DELETE request came
NoTrace == [read |-> "none", entry |-> NoEntry, write |-> "none",
            queried |-> FALSE, storeFailed |-> FALSE, clear |-> "none"]

DefaultTTL == 300

\* parseInt(process.env.CACHE_TTL) || 300
cacheTTL(setting) == OrDefault(parseInt(setting), DefaultTTL)

CacheKeys == {e.key : e \in cache}

EntryOf(key) == CHOOSE e \in cache : e.key = key

ErrorBody == [error |-> "An error occurred while fetching warehouses."]

\* the server after start: nothing cached, no request received; the table is
\* what the database holds at that moment
Started ==
  /\ cache = {}
  /\ pc = [r \in Req |-> "idle"]
  /\ query = [r \in Req |-> QAll]
  /\ fetched = [r \in Req |-> NoFetch]
  /\ res = [r \in Req |-> NoRes]
  /\ trace = [r \in Req |-> NoTrace]
  /\ dpc = "new"
  /\ keys = {}
  /\ todo = {}
  /\ dres = NoRes
  /\ quiet = FALSE
  /\ afterClear = [r \in Req |-> FALSE]
  /\ n = [requests |-> 0, ticks |-> 0, writes |-> 0]
  /\ lookup = NoLookup
  /\ outage = FALSE
  /\ enquiry = {}
  /\ customer_request = {}
  /\ post = [pc |-> "idle"]
  /\ answered = <<>>
  /\ immediates = <<>>
  /\ calls = <<>>
  /\ logged = {}
  /\ unhandled = {}
  /\ emailCounts = [monthly |-> 0, daily |-> 0, hourly |-> 0]
  /\ now = 0
  /\ resetDate = [monthly |-> getNextMonthReset(0), daily |-> getNextDayReset(0),
                  hourly |-> getNextHourReset(0)]
  /\ mail = [c \in MailCalls |-> NewMail]
  /\ auth = NoAuth

\* a run that follows cache entries: any CACHE_TTL, one pair of query strings
Init ==
  /\ Started
  /\ store = InitialTable
  /\ configured = TRUE
  /\ CACHE_TTL \in TtlSettings
  /\ workload \in CacheWorkloads

\* a run that exercises the listing: CACHE_TTL unset, any pair of query strings
InitListing ==
  /\ Started
  /\ store = InitialTable
  /\ configured = TRUE
  /\ CACHE_TTL = Undef
  /\ workload \in Workloads

\* a run that leaves the listing alone
InitLookup ==
  /\ Started
  /\ store = InitialTable
  /\ configured = TRUE
  /\ CACHE_TTL = Undef
  /\ workload = {QAll}

\* a run of overlapping requests: CACHE_TTL unset
InitRace ==
  /\ Started
  /\ store = InitialTable
  /\ configured = TRUE
  /\ CACHE_TTL = Undef
  /\ workload \in RaceWorkloads

(***************************************************************************)
(* GET /warehouses                                                         *)
(***************************************************************************)
InFlight == {r \in Req : pc[r] # "idle"}

\* a request arrives; the handler computes page, filters and cacheKey from it
Start(r, raw) ==
  /\ pc[r] = "idle"
  /\ n.requests < MaxRequests
  /\ raw \in workload
  /\ pc' = [pc EXCEPT ![r] = "cacheGet"]
  /\ query' = [query EXCEPT ![r] = raw]
  /\ fetched' = [fetched EXCEPT ![r] = NoFetch]
  /\ res' = [res EXCEPT ![r] = NoRes]
  /\ trace' = [trace EXCEPT ![r] = NoTrace]
  /\ afterClear' = [x \in Req |-> x = r /\ quiet /\ dpc = "done"]
  /\ quiet' = FALSE
  /\ n' = [n EXCEPT !.requests = @ + 1]
  /\ UNCHANGED <<side, store, cache, CACHE_TTL, workload, dpc, keys, todo, dres>>

\* res.status(200).json(JSON.parse(cachedData))
HitResponse(cachedData) ==
  [status |-> 200, body |-> JSONStringify(JSONParse(cachedData)), source |-> "cache"]

\* what redis.get(key) returns: the value, or null when the key is not there
Get(key) ==
  IF key \in CacheKeys
    THEN [null |-> FALSE, value |-> EntryOf(key).value]
    ELSE [null |-> TRUE]

\* a handler that never takes the cached value
IsHitNever(cachedData) == FALSE

\* if (cachedData): null is falsy, a stored JSON text never is
IsHit(cachedData) == ~cachedData.null

\* what the cache held for the key when it was read
Seen(key) == IF key \in CacheKeys THEN EntryOf(key) ELSE NoEntry

\* redis.get(cacheKey) answered: if (cachedData) return the cached response
CacheGet(r) ==
  /\ pc[r] = "cacheGet"
  /\ LET cachedData == Get(cacheKey(query[r]))
     IN IF IsHit(cachedData)
          THEN /\ res' = [res EXCEPT ![r] = HitResponse(cachedData.value)]
               /\ pc' = [pc EXCEPT ![r] = "idle"]
               /\ trace' = [trace EXCEPT ![r] =
                    [@ EXCEPT !.read = "hit", !.entry = Seen(cacheKey(query[r]))]]
          ELSE /\ res' = res
               /\ pc' = [pc EXCEPT ![r] = "query"]
               /\ trace' = [trace EXCEPT ![r] =
                    [@ EXCEPT !.read = "miss", !.entry = Seen(cacheKey(query[r]))]]
  /\ UNCHANGED <<side, store, cache, CACHE_TTL, workload, query, fetched,
                 dpc, keys, todo, dres, quiet, afterClear, n>>

\* the catch block of the cache read: log, then go on to the database
CatchReadError(r) ==
  /\ res' = res
  /\ pc' = [pc EXCEPT ![r] = "query"]

\* redis.get(cacheKey) threw
CacheGetError(r) ==
  /\ pc[r] = "cacheGet"
  /\ CatchReadError(r)
  /\ trace' = [trace EXCEPT ![r] =
       [@ EXCEPT !.read = "error", !.entry = Seen(cacheKey(query[r]))]]
  /\ UNCHANGED <<side, store, cache, CACHE_TTL, workload, query, fetched,
                 dpc, keys, todo, dres, quiet, afterClear, n>>

\* prisma.$transaction([findMany, count]) sends its two statements in order,
\* at the isolation level the database is configured with (the call passes no
\* isolationLevel).  findMany answered: it read the table as committed now
StoreFindMany(r) ==
  /\ pc[r] = "query"
  /\ ~QueryRejected(query[r])
  /\ fetched' = [fetched EXCEPT ![r] =
       [done |-> FALSE, warehouses |-> findMany(store, query[r]), table |-> store]]
  /\ pc' = [pc EXCEPT ![r] = "count"]
  /\ trace' = [trace EXCEPT ![r] = [@ EXCEPT !.queried = TRUE]]
  /\ UNCHANGED <<side, store, cache, CACHE_TTL, workload, query, res,
                 dpc, keys, todo, dres, quiet, afterClear, n>>

\* count answered: it read the table as committed now, and the transaction
\* resolves with both results; table and counted record the two states read
StoreCount(r) ==
  /\ pc[r] = "count"
  /\ fetched' = [fetched EXCEPT ![r] =
       [done |-> TRUE, warehouses |-> @.warehouses,
        totalWarehouses |-> count(store, query[r]), table |-> @.table,
        counted |-> store]]
  /\ pc' = [pc EXCEPT ![r] = "cacheSet"]
  /\ UNCHANGED <<side, store, cache, CACHE_TTL, workload, query, res, trace,
                 dpc, keys, todo, dres, quiet, afterClear, n>>

\* a 500 response that passes the store's error text on
ErrorWithDetail ==
  [status |-> 500,
   body |-> [error |-> "An error occurred while fetching warehouses.",
             detail |-> "Can't reach database server"],
   source |-> "error"]

\* the outer catch: res.status(500).json({ error: ... })
ErrorResponse == [status |-> 500, body |-> ErrorBody, source |-> "error"]

\* prisma.$transaction rejected (database unreachable, invalid arguments)
StoreQueryFail(r) ==
  /\ pc[r] \in {"query", "count"}
  /\ res' = [res EXCEPT ![r] = ErrorResponse]
  /\ pc' = [pc EXCEPT ![r] = "idle"]
  /\ trace' = [trace EXCEPT ![r] = [@ EXCEPT !.queried = TRUE, !.storeFailed = TRUE]]
  /\ UNCHANGED <<side, store, cache, CACHE_TTL, workload, query, fetched,
                 dpc, keys, todo, dres, quiet, afterClear, n>>

\* the responseData of a handler whose transaction has answered
ResponseOf(r) ==
  responseData(query[r], fetched[r].warehouses, fetched[r].totalWarehouses)

\* res.status(200).json(responseData)
StoreResponse(r) ==
  [status |-> 200, body |-> JSONStringify(ResponseOf(r)), source |-> "store"]

\* the entry redis.setEx(cacheKey, cacheTTL, JSON.stringify(responseData)) writes;
\* by, table, sent and clear record the request, the table state the value
\* came from, the body sent to that request and whether findMany had answered
\* when the DELETE request came
NewEntry(r) ==
  [key |-> cacheKey(query[r]), value |-> JSONStringify(ResponseOf(r)),
   ttl |-> cacheTTL(CACHE_TTL), age |-> 0, by |-> query[r],
   table |-> fetched[r].table, sent |-> StoreResponse(r).body,
   clear |-> trace[r].clear]

\* a write that is dropped
SetExDropped(entry) == cache

\* a write that flushes every other key
SetExAlone(entry) == {entry}

\* SETEX replaces the key's value and expiry; Redis refuses a ttl <= 0
SetEx(entry) == {e \in cache : e.key # entry.key} \cup {entry}

\* redis.setEx answered, then the response is sent
CacheSet(r) ==
  /\ pc[r] = "cacheSet"
  /\ cacheTTL(CACHE_TTL) > 0
  /\ cache' = SetEx(NewEntry(r))
  /\ res' = [res EXCEPT ![r] = StoreResponse(r)]
  /\ pc' = [pc EXCEPT ![r] = "idle"]
  /\ trace' = [trace EXCEPT ![r] = [@ EXCEPT !.write = "ok"]]
  /\ UNCHANGED <<side, store, CACHE_TTL, workload, query, fetched,
                 dpc, keys, todo, dres, quiet, afterClear, n>>

\* a cache write whose error reaches the outer catch
RethrowWriteError(r) ==
  /\ res' = [res EXCEPT ![r] = ErrorResponse]
  /\ pc' = [pc EXCEPT ![r] = "idle"]

\* the catch block of the cache write: log, then send the response
CatchWriteError(r) ==
  /\ res' = [res EXCEPT ![r] = StoreResponse(r)]
  /\ pc' = [pc EXCEPT ![r] = "idle"]

\* redis.setEx threw
CacheSetError(r) ==
  /\ pc[r] = "cacheSet"
  /\ CatchWriteError(r)
  /\ trace' = [trace EXCEPT ![r] = [@ EXCEPT !.write = "error"]]
  /\ UNCHANGED <<side, store, cache, CACHE_TTL, workload, query, fetched,
                 dpc, keys, todo, dres, quiet, afterClear, n>>

(***************************************************************************)
(* DELETE /cache/warehouses                                                *)
(***************************************************************************)
\* a pattern that matches every key
MatchesEveryKey(key) == key.prefix # ""

\* a pattern that misses the prefix the handler writes
MatchesOtherPrefix(key) == key.prefix = "warehouse"

\* MATCH 'warehouses:*'
MatchesPattern(key) == key.prefix = "warehouses"

Matching == {k \in CacheKeys : MatchesPattern(k)}

DeleteStart ==
  /\ dpc = "new"
  /\ dpc' = "scan"
  /\ keys' = {}
  /\ todo' = Matching
  /\ dres' = NoRes
  /\ quiet' = (InFlight = {})
  /\ trace' = [r \in Req |->
                IF pc[r] \in {"count", "cacheSet"}
                  THEN [trace[r] EXCEPT !.clear = "new"] ELSE trace[r]]
  /\ UNCHANGED <<side, store, cache, CACHE_TTL, workload, pc, query, fetched, res,
                 afterClear, n>>

\* the iterator yields some of the matching keys it has not yielded yet
ScanStep ==
  /\ dpc = "scan"
  /\ \E batch \in (SUBSET (Matching \ keys)) \ {{}} : keys' = keys \cup batch
  /\ UNCHANGED <<side, store, cache, CACHE_TTL, workload, pc, query, fetched, res,
                 trace, dpc, todo, dres, quiet, afterClear, n>>

\* the iterator ends: SCAN has returned every key that was there from its
\* start to its end
ScanEnd ==
  /\ dpc = "scan"
  /\ (todo \cap Matching) \subseteq keys
  /\ IF keys # {}
       THEN /\ dpc' = "del"
            /\ dres' = dres
       ELSE /\ dpc' = "done"
            /\ dres' = [status |-> 200,
                        body |-> [message |-> "No cache entries found to clear"],
                        failed |-> "none"]
  /\ UNCHANGED <<side, store, cache, CACHE_TTL, workload, pc, query, fetched, res,
                 trace, keys, todo, quiet, afterClear, n>>

\* redis.del(keys) answered
Del ==
  /\ dpc = "del"
  /\ cache' = {e \in cache : e.key \notin keys}
  /\ dpc' = "done"
  /\ dres' = [status |-> 200,
              body |-> [message |-> "Cache cleared successfully",
                        clearedKeys |-> Cardinality(keys)],
              failed |-> "none"]
  /\ UNCHANGED <<side, store, CACHE_TTL, workload, pc, query, fetched, res,
                 trace, keys, todo, quiet, afterClear, n>>

\* a handler that answers a failed call as if the cache had been cleared
ClearSwallowed(call) ==
  [status |-> 200,
   body |-> [message |-> "Cache cleared successfully", clearedKeys |-> 0],
   failed |-> call]

\* the catch block: res.status(500).json({ error: 'Failed to clear cache' });
\* failed records the call that threw
ClearFailed(call) ==
  [status |-> 500, body |-> [error |-> "Failed to clear cache"], failed |-> call]

\* the scan or the delete threw
DeleteError ==
  /\ dpc \in {"scan", "del"}
  /\ dpc' = "done"
  /\ dres' = ClearFailed(dpc)
  /\ quiet' = FALSE
  /\ UNCHANGED <<side, store, cache, CACHE_TTL, workload, pc, query, fetched, res,
                 trace, keys, todo, afterClear, n>>

(***************************************************************************)
(* The environment: time, and other actors writing the table               *)
(***************************************************************************)
\* an entry of another client of the same Redis, under a key that does not
\* begin with warehouses:
OtherEntry ==
  [key |-> [prefix |-> "sessions", page |-> 0, size |-> 0, filters |-> filterKey(<<>>)],
   value |-> JSONStringify(responseData(<<>>, <<>>, 0)), ttl |-> 60, age |-> 0,
   by |-> <<>>, table |-> {}, sent |-> JSONStringify(responseData(<<>>, <<>>, 0)),
   clear |-> "none"]

\* that client writes its key
OtherKeyWritten ==
  /\ OtherEntry.key \notin CacheKeys
  /\ cache' = cache \cup {OtherEntry}
  /\ UNCHANGED <<side, store, CACHE_TTL, workload, pc, query, fetched, res, trace,
                 dpc, keys, todo, dres, quiet, afterClear, n>>

TickSteps == {1, DefaultTTL}

\* d seconds pass; Redis drops the entries whose ttl has run out
Tick(d) ==
  /\ n.ticks < MaxTicks
  /\ cache' = {[e EXCEPT !.age = @ + d] : e \in {x \in cache : x.age + d < x.ttl}}
  /\ n' = [n EXCEPT !.ticks = @ + 1]
  /\ UNCHANGED <<side, store, CACHE_TTL, workload, pc, query, fetched, res, trace,
                 dpc, keys, todo, dres, quiet, afterClear>>

SetVisibility(w) ==
  /\ n.writes < MaxStoreWrites
  /\ w \in store
  /\ store' = (store \ {w}) \cup {[w EXCEPT !.visibility = ~@]}
  /\ n' = [n EXCEPT !.writes = @ + 1]
  /\ UNCHANGED <<side, cache, CACHE_TTL, workload, pc, query, fetched, res, trace,
                 dpc, keys, todo, dres, quiet, afterClear>>

DeleteRow(w) ==
  /\ n.writes < MaxStoreWrites
  /\ w \in store
  /\ store' = store \ {w}
  /\ n' = [n EXCEPT !.writes = @ + 1]
  /\ UNCHANGED <<side, cache, CACHE_TTL, workload, pc, query, fetched, res, trace,
                 dpc, keys, todo, dres, quiet, afterClear>>

InsertRow ==
  /\ n.writes < MaxStoreWrites
  /\ \A w \in store : w.id # NewWarehouse.id
  /\ store' = store \cup {NewWarehouse}
  /\ n' = [n EXCEPT !.writes = @ + 1]
  /\ UNCHANGED <<side, cache, CACHE_TTL, workload, pc, query, fetched, res, trace,
                 dpc, keys, todo, dres, quiet, afterClear>>

(***************************************************************************)
(* getWarehouseById (routes/warehouseRoutes.js: GET /:id)                  *)
(***************************************************************************)
\* the :id values clients send
LookupIds == {<<"3">>, <<"2">>, <<"1">>, <<"9">>, <<"a">>, <<"2", "x">>}

NoRow == [none |-> TRUE]

\* a lookup by id alone
findUniqueAnyVisibility(table, warehouseId) ==
  IF \E w \in table : w.id = warehouseId
    THEN CHOOSE w \in table : w.id = warehouseId
    ELSE NoRow

\* prisma.warehouse.findUnique({ where: { id: warehouseId, visibility: true } })
findUnique(table, warehouseId) ==
  IF \E w \in table : w.id = warehouseId /\ w.visibility
    THEN CHOOSE w \in table : w.id = warehouseId /\ w.visibility
    ELSE NoRow

\* warehouse.warehouseData?.fireNocAvailable || null
FireNocOrNull(w) == IF w.warehouseData = "true" THEN "true" ELSE "null"

\* parsedPhotos of getWarehouseById: only a text that starts with [ or { goes
\* to JSON.parse, any other truthy text is the single photo
parsedPhotosById(photos) ==
  IF photos = Null \/ photos.s = <<>> THEN <<>>
  ELSE IF StartsWith(photos.s, <<"[">>) \/ StartsWith(photos.s, <<"{">>)
    THEN parsedPhotos(photos)
  ELSE <<[k |-> "str", s |-> photos.s]>>

\* the response object: contactPerson is left out
Details(w) ==
  [id |-> w.id, address |-> w.address, totalSpaceSqft |-> w.totalSpaceSqft,
   clearHeightFt |-> w.clearHeightFt, city |-> w.city, state |-> w.state,
   photos |-> parsedPhotosById(w.photos), warehouseType |-> w.warehouseType,
   zone |-> w.zone, compliances |-> w.compliances,
   ratePerSqft |-> w.ratePerSqft, fireNocAvailable |-> FireNocOrNull(w)]

\* getWarehouseById when the database answers
getWarehouseById(table, id) ==
  IF id = <<>> \/ parseIntStr(id) = NaN
    THEN [status |-> 400, body |-> [error |-> "Invalid warehouse ID format"]]
  ELSE LET warehouse == findUnique(table, parseIntStr(id).v)
       IN IF warehouse = NoRow
            THEN [status |-> 404, body |-> [error |-> "Warehouse not found"]]
            ELSE [status |-> 200, body |-> Details(warehouse)]

\* getWarehouseById answers a request; table records the state it read
GetById(id) ==
  /\ lookup' = [id |-> id, res |-> getWarehouseById(store, id), table |-> store,
                failed |-> FALSE]
  /\ UNCHANGED <<auth, store, listing, outage, forms, mailer>>

\* findUnique rejected: the catch block answers 500
GetByIdFail(id) ==
  /\ id # <<>> /\ parseIntStr(id) # NaN
  /\ lookup' = [id |-> id,
                res |-> [status |-> 500,
                         body |-> [error |-> "An error occurred while fetching warehouse details"]],
                table |-> store, failed |-> TRUE]
  /\ UNCHANGED <<auth, store, listing, outage, forms, mailer>>

(***************************************************************************)
(* createEnquiry and createCustomerRequest                                 *)
(***************************************************************************)
\* isValidPhoneNumber: /^\+?[0-9()\-\s]{7,20}$/ on the trimmed string
isValidPhoneNumber(phone) ==
  IF ~Truthy(phone) \/ phone.k # "str" THEN FALSE
  ELSE LET cleaned == Trim(phone.s)
           rest == IF cleaned # <<>> /\ Head(cleaned) = "+"
                     THEN Tail(cleaned) ELSE cleaned
       IN /\ Len(rest) >= 7
          /\ Len(rest) <= 20
          /\ \A i \in 1..Len(rest) :
               IsDigit(rest[i]) \/ rest[i] \in {"(", ")", "-", " "}

\* !v || typeof v !== 'string' || v.trim().length === 0
BlankOrMissing(v) == ~Truthy(v) \/ v.k # "str" \/ Trim(v.s) = <<>>

BadRequest(error) == [status |-> 400, body |-> [error |-> error]]

\* the 400 response of createEnquiry to the body, NoRes when the body is valid
\* (the backquotes around the field names in the messages are written ')
EnquiryRefusal(body) ==
  IF ~body.json THEN BadRequest("Missing request body (expected JSON)")
  ELSE IF BlankOrMissing(body.name)
    THEN BadRequest("Invalid or missing 'name'")
  ELSE IF ~isValidPhoneNumber(body.phoneNumber)
    THEN BadRequest("Invalid or missing 'phoneNumber'")
  ELSE IF Truthy(body.email) /\ body.email.k # "str"
    THEN BadRequest("Invalid 'email'")
  ELSE IF BlankOrMissing(body.source)
    THEN BadRequest("Invalid or missing 'source'")
  ELSE NoRes

\* the data createEnquiry passes to prisma.enquiry.create
EnquiryData(body) ==
  [name |-> Str(Trim(body.name.s)),
   phoneNumber |-> Str(Trim(body.phoneNumber.s)),
   email |-> IF Truthy(body.email) THEN Str(Trim(body.email.s)) ELSE JsNull,
   source |-> Str(Trim(body.source.s))]

\* missing with only the first invalid field
FirstMissingField(body) ==
  IF BlankOrMissing(body.full_name) THEN <<"full_name">>
  ELSE IF ~isValidPhoneNumber(body.phone_number) THEN <<"phone_number">>
  ELSE IF BlankOrMissing(body.company_name) THEN <<"company_name">>
  ELSE IF BlankOrMissing(body.preferred_location) THEN <<"preferred_location">>
  ELSE IF BlankOrMissing(body.additional_requirements)
    THEN <<"additional_requirements">>
  ELSE <<>>

\* the names createCustomerRequest pushes to missing, in order
MissingFields(body) ==
  (IF BlankOrMissing(body.full_name) THEN <<"full_name">> ELSE <<>>)
  \o (IF ~Truthy(body.phone_number) \/ ~isValidPhoneNumber(body.phone_number)
        THEN <<"phone_number">> ELSE <<>>)
  \o (IF BlankOrMissing(body.company_name) THEN <<"company_name">> ELSE <<>>)
  \o (IF BlankOrMissing(body.preferred_location)
        THEN <<"preferred_location">> ELSE <<>>)
  \o (IF BlankOrMissing(body.additional_requirements)
        THEN <<"additional_requirements">> ELSE <<>>)

\* the 400 response of createCustomerRequest, NoRes when the body is valid
CustomerRequestRefusal(body) ==
  IF ~body.json THEN BadRequest("Missing request body (expected JSON)")
  ELSE IF MissingFields(body) # <<>>
    THEN [status |-> 400,
          body |-> [error |-> "Missing or invalid fields",
                    fields |-> MissingFields(body)]]
  ELSE NoRes

\* the data createCustomerRequest passes to prisma.customer_request.create
CustomerRequestData(body) ==
  [full_name |-> Str(Trim(body.full_name.s)),
   phone_number |-> Str(Trim(body.phone_number.s)),
   company_name |-> Str(Trim(body.company_name.s)),
   preferred_location |-> Str(Trim(body.preferred_location.s)),
   additional_requirements |-> Str(Trim(body.additional_requirements.s))]

\* the row prisma's create adds to the table: the data and the id the
\* autoincrement column gives it, of the column's type t (the schema is not
\* among the sources; sanitizeForJSON exists for BigInt columns)
create(table, data, t) ==
  [f \in DOMAIN data \cup {"id"} |->
     IF f = "id" THEN [t |-> t, v |-> Cardinality(table) + 1] ELSE data[f]]

\* BigInt.prototype.toString of k >= 0
RECURSIVE BigIntToString(_)
BigIntToString(k) ==
  IF k < 10 THEN <<DigitChars[k + 1]>>
  ELSE BigIntToString(k \div 10) \o <<DigitChars[(k % 10) + 1]>>

\* sanitizeForJSON of a row: BigInt values become strings, all else is kept
sanitizeForJSON(row) ==
  [f \in DOMAIN row |->
     IF "t" \in DOMAIN row[f] /\ row[f].t = "bigint"
       THEN Str(BigIntToString(row[f].v))
       ELSE row[f]]

\* setImmediate(callback) twice over
setImmediateTwice(queue, fn, arg) ==
  queue \o <<[fn |-> fn, arg |-> arg], [fn |-> fn, arg |-> arg]>>

\* setImmediate(callback): the callback joins the queue of the check phase;
\* fn and arg are the notification it will call and the record it closes over
setImmediate(queue, fn, arg) == Append(queue, [fn |-> fn, arg |-> arg])

\* createEnquiry up to its await: validation, then prisma.enquiry.create
PostEnquiry(body) ==
  /\ post.pc = "idle" /\ Len(answered) < MaxPosts
  /\ IF EnquiryRefusal(body) # NoRes
       THEN /\ answered' = Append(answered, [kind |-> "enquiry", body |-> body,
                                             res |-> EnquiryRefusal(body),
                                             created |-> NoRow])
            /\ post' = post
       ELSE /\ post' = [pc |-> "create", kind |-> "enquiry", body |-> body,
                        data |-> EnquiryData(body)]
            /\ answered' = answered
  /\ UNCHANGED <<auth, store, listing, lookup, outage, mailer, enquiry, customer_request,
                 immediates, calls, logged, unhandled>>

\* createEnquiry with the service awaited inside the handler, before res.json
EnquiryCreatedAwaiting(t) ==
  /\ post.pc = "create" /\ post.kind = "enquiry"
  /\ LET created == create(enquiry, post.data, t)
     IN /\ enquiry' = enquiry \cup {created}
        /\ calls' = Append(calls, [fn |-> "sendEnquiryNotification",
                                   arg |-> created, outcome |-> "pending"])
  /\ post' = [post EXCEPT !.pc = "notify"]
  /\ UNCHANGED <<auth, store, listing, lookup, outage, mailer, customer_request, answered,
                 immediates, logged, unhandled>>

\* prisma.enquiry.create resolved: the callback is queued and 201 is sent
EnquiryCreated(t) ==
  /\ post.pc = "create" /\ post.kind = "enquiry"
  /\ LET created == create(enquiry, post.data, t)
     IN /\ enquiry' = enquiry \cup {created}
        /\ immediates' = setImmediate(immediates, "sendEnquiryNotification",
                                      created)
        /\ answered' = Append(answered,
                              [kind |-> "enquiry", body |-> post.body,
                               res |-> [status |-> 201,
                                        body |-> sanitizeForJSON(created)],
                               created |-> created])
  /\ post' = [pc |-> "idle"]
  /\ UNCHANGED <<auth, store, listing, lookup, outage, mailer, customer_request, calls,
                 logged, unhandled>>

\* prisma.enquiry.create rejected: the catch block answers 500
EnquiryCreateFailed ==
  /\ post.pc = "create" /\ post.kind = "enquiry"
  /\ answered' = Append(answered,
                        [kind |-> "enquiry", body |-> post.body,
                         res |-> [status |-> 500,
                                  body |-> [error |-> "Failed to create enquiry"]],
                         created |-> NoRow])
  /\ post' = [pc |-> "idle"]
  /\ UNCHANGED <<auth, store, listing, lookup, outage, mailer, enquiry, customer_request,
                 immediates, calls, logged, unhandled>>

\* createCustomerRequest up to its await
PostCustomerRequest(body) ==
  /\ post.pc = "idle" /\ Len(answered) < MaxPosts
  /\ IF CustomerRequestRefusal(body) # NoRes
       THEN /\ answered' = Append(answered,
                                  [kind |-> "customer_request", body |-> body,
                                   res |-> CustomerRequestRefusal(body),
                                   created |-> NoRow])
            /\ post' = post
       ELSE /\ post' = [pc |-> "create", kind |-> "customer_request",
                        body |-> body, data |-> CustomerRequestData(body)]
            /\ answered' = answered
  /\ UNCHANGED <<auth, store, listing, lookup, outage, mailer, enquiry, customer_request,
                 immediates, calls, logged, unhandled>>

\* prisma.customer_request.create resolved: 201 is sent, nothing else is done
CustomerRequestCreated(t) ==
  /\ post.pc = "create" /\ post.kind = "customer_request"
  /\ LET created == create(customer_request, post.data, t)
     IN /\ customer_request' = customer_request \cup {created}
        /\ answered' = Append(answered,
                              [kind |-> "customer_request", body |-> post.body,
                               res |-> [status |-> 201,
                                        body |-> sanitizeForJSON(created)],
                               created |-> created])
  /\ post' = [pc |-> "idle"]
  /\ UNCHANGED <<auth, store, listing, lookup, outage, mailer, enquiry, immediates, calls,
                 logged, unhandled>>

\* prisma.customer_request.create rejected: the catch block answers 500
CustomerRequestCreateFailed ==
  /\ post.pc = "create" /\ post.kind = "customer_request"
  /\ answered' = Append(answered,
                        [kind |-> "customer_request", body |-> post.body,
                         res |-> [status |-> 500,
                                  body |-> [error |-> "Failed to create customer request"]],
                         created |-> NoRow])
  /\ post' = [pc |-> "idle"]
  /\ UNCHANGED <<auth, store, listing, lookup, outage, mailer, enquiry, customer_request,
                 immediates, calls, logged, unhandled>>

\* what sendEnquiryNotification logs about its result
ServiceLog(outcome, record) ==
  IF outcome = "rateLimited"
    THEN {[id |-> record.id, level |-> "warn", by |-> "service"]}
  ELSE IF outcome = "failed"
    THEN {[id |-> record.id, level |-> "error", by |-> "service"]}
  ELSE {}

\* the awaited call with no try around it: a rejection leaves the callback
awaitBare(outcome, record, log, rejections) ==
  [logged |-> log,
   unhandled |-> IF outcome = "rejected" THEN rejections \cup {record.id}
                 ELSE rejections]

\* the callback's try { await ... } catch { console.error }
tryAwait(outcome, record, log, rejections) ==
  [logged |-> IF outcome = "rejected"
                THEN log \cup {[id |-> record.id, level |-> "error",
                                by |-> "controller"]}
                ELSE log,
   unhandled |-> rejections]

\* the event loop runs the oldest queued callback, which calls the service;
\* no handler is between two of its synchronous statements at that moment
RunImmediate ==
  /\ immediates # <<>>
  /\ calls' = Append(calls, [fn |-> Head(immediates).fn,
                             arg |-> Head(immediates).arg,
                             outcome |-> "pending"])
  /\ immediates' = Tail(immediates)
  /\ UNCHANGED <<auth, store, listing, lookup, outage, mailer, enquiry, customer_request,
                 post, answered, logged, unhandled>>

\* the pending call i of the service ends: with one of its three results
\* ("sent", "failed", "rateLimited") or with the rejection the tests make it
\* give; one that never ends stays pending
NotificationEnds(i, outcome) ==
  /\ i \in DOMAIN calls
  /\ calls[i].outcome = "pending"
  /\ calls' = [calls EXCEPT ![i].outcome = outcome]
  /\ LET after == tryAwait(outcome, calls[i].arg,
                           logged \cup ServiceLog(outcome, calls[i].arg),
                           unhandled)
     IN /\ logged' = after.logged
        /\ unhandled' = after.unhandled
  /\ UNCHANGED <<auth, store, listing, lookup, outage, mailer, enquiry, customer_request,
                 post, answered, immediates>>

(***************************************************************************)
(* NotificationService.sendEmail (utils/notificationService.js)            *)
(***************************************************************************)
NOTIFICATION_RECIPIENTS == <<"ranita@wareongo.com", "Dhaval@wareongo.com">>

MONTHLY_LIMIT == 200

DAILY_LIMIT == 10

HOURLY_LIMIT == 5

\* a check that refuses only when a count is above its limit
checkRateLimitAbove(counts) ==
  IF counts.monthly > MONTHLY_LIMIT THEN [allowed |-> FALSE, type |-> "monthly"]
  ELSE IF counts.daily > DAILY_LIMIT THEN [allowed |-> FALSE, type |-> "daily"]
  ELSE IF counts.hourly > HOURLY_LIMIT THEN [allowed |-> FALSE, type |-> "hourly"]
  ELSE [allowed |-> TRUE, type |-> "none"]

\* checkRateLimit: the first window, in the order monthly, daily, hourly,
\* whose count has reached its limit
checkRateLimit(counts) ==
  IF counts.monthly >= MONTHLY_LIMIT THEN [allowed |-> FALSE, type |-> "monthly"]
  ELSE IF counts.daily >= DAILY_LIMIT THEN [allowed |-> FALSE, type |-> "daily"]
  ELSE IF counts.hourly >= HOURLY_LIMIT THEN [allowed |-> FALSE, type |-> "hourly"]
  ELSE [allowed |-> TRUE, type |-> "none"]

\* a load that starts the monthly window again and leaves the others
loadMonthlyOnly(counts, dates, t) ==
  [counts |-> [counts EXCEPT !.monthly = IF t >= dates.monthly THEN 0 ELSE @],
   dates |-> [dates EXCEPT !.monthly =
                IF t >= dates.monthly THEN getNextMonthReset(t) ELSE @]]

\* loadEmailCounts at time t: a window whose reset date has come starts again
\* at 0 with its next reset date
loadEmailCounts(counts, dates, t) ==
  [counts |->
     [monthly |-> IF t >= dates.monthly THEN 0 ELSE counts.monthly,
      daily |-> IF t >= dates.daily THEN 0 ELSE counts.daily,
      hourly |-> IF t >= dates.hourly THEN 0 ELSE counts.hourly],
   dates |->
     [monthly |-> IF t >= dates.monthly THEN getNextMonthReset(t) ELSE dates.monthly,
      daily |-> IF t >= dates.daily THEN getNextDayReset(t) ELSE dates.daily,
      hourly |-> IF t >= dates.hourly THEN getNextHourReset(t) ELSE dates.hourly]]

incrementEmailCounts(counts) ==
  [monthly |-> counts.monthly + 1, daily |-> counts.daily + 1,
   hourly |-> counts.hourly + 1]

\* what sendEmail returns after the loop over the recipients
Delivered(results) ==
  IF \A k \in DOMAIN results : results[k].success
    THEN [success |-> TRUE, partialSuccess |-> FALSE, rateLimited |-> FALSE]
    ELSE [success |-> \E k \in DOMAIN results : results[k].success,
          partialSuccess |-> TRUE, rateLimited |-> FALSE]

\* the call after its send to recipient i has ended with the given success:
\* the next recipient's send is awaited, or the call returns
AfterSend(call, ok) ==
  LET results == Append(call.results,
                        [recipient |-> NOTIFICATION_RECIPIENTS[call.i],
                         success |-> ok])
  IN IF call.i < Len(NOTIFICATION_RECIPIENTS)
       THEN [pc |-> "send", i |-> call.i + 1, results |-> results,
             result |-> call.result]
       ELSE [pc |-> "done", i |-> 0, results |-> results,
             result |-> Delivered(results)]

\* a rejected send that reaches the outer catch: the call returns at once
AbortSend(call, ok) ==
  IF ok THEN AfterSend(call, ok)
  ELSE [pc |-> "done", i |-> 0, results |-> call.results,
        result |-> [success |-> FALSE, partialSuccess |-> FALSE,
                    rateLimited |-> FALSE]]

\* the per-recipient try/catch: a rejected send is recorded and the loop goes on
NextRecipient(call, ok) == AfterSend(call, ok)

\* sendEmail up to its first await: the rate-limit check, the configuration
\* check (whose throw the outer catch turns into a result), then the send to
\* the first recipient
SendEmail(c) ==
  LET loaded == loadEmailCounts(emailCounts, resetDate, now)
      check == checkRateLimit(loaded.counts)
  IN
  /\ mail[c].pc = "new"
  /\ emailCounts' = loaded.counts
  /\ resetDate' = loaded.dates
  /\ mail' = [mail EXCEPT ![c] =
       IF ~check.allowed
         THEN [pc |-> "done", i |-> 0, results |-> <<>>,
               result |-> [success |-> FALSE, partialSuccess |-> FALSE,
                           rateLimited |-> TRUE,
                           window |-> check.type,
                           resetDate |-> loaded.dates[check.type]]]
       ELSE IF ~configured
         THEN [pc |-> "done", i |-> 0, results |-> <<>>,
               result |-> [success |-> FALSE, partialSuccess |-> FALSE,
                           rateLimited |-> FALSE]]
       ELSE [pc |-> "send", i |-> 1, results |-> <<>>, result |-> @.result]]
  /\ UNCHANGED <<auth, store, listing, lookup, outage, forms, now, configured>>

\* emailjs.send resolved: the counters go up, then the loop goes on
SendResolved(c) ==
  /\ mail[c].pc = "send"
  /\ emailCounts' = incrementEmailCounts(emailCounts)
  /\ mail' = [mail EXCEPT ![c] = NextRecipient(@, TRUE)]
  /\ UNCHANGED <<auth, store, listing, lookup, outage, forms, resetDate, now, configured>>

\* emailjs.send rejected
SendRejected(c) ==
  /\ mail[c].pc = "send"
  /\ mail' = [mail EXCEPT ![c] = NextRecipient(@, FALSE)]
  /\ UNCHANGED <<auth, store, listing, lookup, outage, forms, emailCounts, resetDate, now,
                 configured>>

\* the caller has the result of call c; the service is called again
NextCall(c) ==
  /\ mail[c].pc = "done"
  /\ mail' = [mail EXCEPT ![c] = NewMail]
  /\ UNCHANGED <<auth, store, listing, lookup, outage, forms, emailCounts, resetDate, now,
                 configured>>

\* an hour passes
HourPasses ==
  /\ now < MaxHours
  /\ now' = now + 1
  /\ UNCHANGED <<auth, store, listing, lookup, outage, forms, emailCounts, resetDate,
                 configured, mail>>

(***************************************************************************)
(* verifyToken and requireAdmin.  An Authorization header is its first     *)
(* seven characters and what follows them; what follows is a token: empty, *)
(* not a JWT, or a JWT with its signature, validity times, issuer,         *)
(* audience and role.                                                      *)
(***************************************************************************)
Tokens ==
  [form : {"jwt"}, signed : BOOLEAN, time : {"active", "expired", "notYet"},
   iss : BOOLEAN, aud : BOOLEAN, role : {"admin", "user", "none"}]
  \cup [form : {"empty", "malformed"}, signed : {FALSE}, time : {"active"},
         iss : {FALSE}, aud : {FALSE}, role : {"none"}]

\* nothing follows the first seven characters
EmptyToken ==
  [form |-> "empty", signed |-> FALSE, time |-> "active", iss |-> FALSE,
   aud |-> FALSE, role |-> "none"]

\* req.headers.authorization: absent, '', 'Basic x', 'bearer <token>',
\* 'Bearer <token>'
AuthHeaders ==
  {[k |-> "undef"], [k |-> "str", head |-> "", rest |-> EmptyToken],
   [k |-> "str", head |-> "Basic x", rest |-> EmptyToken]}
  \cup {[k |-> "str", head |-> "bearer ", rest |-> t] :
          t \in {x \in Tokens : x.form = "jwt" /\ x.signed /\ x.time = "active"
                                  /\ x.iss /\ x.aud /\ x.role = "admin"}}
  \cup {[k |-> "str", head |-> "Bearer ", rest |-> t] : t \in Tokens}

\* jwt.verify(token, JWT_SECRET, { issuer, audience }): the name of the error
\* it throws, in the order of its checks, or the decoded payload
jwtVerify(token) ==
  IF token.form # "jwt" \/ ~token.signed
    THEN [error |-> "JsonWebTokenError", decoded |-> [none |-> TRUE]]
  ELSE IF token.time = "notYet"
    THEN [error |-> "NotBeforeError", decoded |-> [none |-> TRUE]]
  ELSE IF token.time = "expired"
    THEN [error |-> "TokenExpiredError", decoded |-> [none |-> TRUE]]
  ELSE IF ~token.aud \/ ~token.iss
    THEN [error |-> "JsonWebTokenError", decoded |-> [none |-> TRUE]]
  ELSE [error |-> "none", decoded |-> [role |-> token.role]]

Unauthorized(message) ==
  [status |-> 401, body |-> [error |-> "Unauthorized", message |-> message]]

\* the catch block of verifyToken
VerifyFailed(name) ==
  IF name = "TokenExpiredError" THEN Unauthorized("Token has expired")
  ELSE IF name = "JsonWebTokenError" THEN Unauthorized("Invalid token")
  ELSE [status |-> 500,
        body |-> [error |-> "Internal Server Error",
                  message |-> "Token verification failed"]]

\* verifyToken: the response it sends, or next with req.user set
verifyToken(header) ==
  IF header.k = "undef" \/ header.head = ""
    THEN [next |-> FALSE, user |-> [none |-> TRUE],
          res |-> Unauthorized("No authorization header provided")]
  ELSE IF header.head # "Bearer "
    THEN [next |-> FALSE, user |-> [none |-> TRUE],
          res |-> Unauthorized("Invalid authorization format. Use: Bearer <token>")]
  ELSE IF jwtVerify(header.rest).error # "none"
    THEN [next |-> FALSE, user |-> [none |-> TRUE],
          res |-> VerifyFailed(jwtVerify(header.rest).error)]
  ELSE [next |-> TRUE, user |-> jwtVerify(header.rest).decoded,
        res |-> [status |-> 0]]

\* requireAdmin: the response it sends, or next
requireAdmin(user) ==
  IF "none" \in DOMAIN user
    THEN [next |-> FALSE, res |-> Unauthorized("Authentication required")]
  ELSE IF user.role # "admin"
    THEN [next |-> FALSE,
          res |-> [status |-> 403,
                   body |-> [error |-> "Forbidden",
                             message |-> "Admin access required"]]]
  ELSE [next |-> TRUE, res |-> [status |-> 0]]

\* a request reaches verifyToken
VerifyToken(header) ==
  /\ auth.pc = "idle"
  /\ auth.count < MaxAuthRequests
  /\ auth' = [pc |-> IF verifyToken(header).next THEN "requireAdmin" ELSE "idle",
              count |-> auth.count + 1, header |-> header,
              user |-> verifyToken(header).user, res |-> verifyToken(header).res,
              reached |-> FALSE]
  /\ UNCHANGED <<store, listing, lookup, outage, forms, mailer>>

\* next() of verifyToken runs requireAdmin, whose next() runs the route
RequireAdmin ==
  /\ auth.pc = "requireAdmin"
  /\ auth' = [auth EXCEPT !.pc = "idle", !.res = requireAdmin(auth.user).res,
                          !.reached = requireAdmin(auth.user).next]
  /\ UNCHANGED <<store, listing, lookup, outage, forms, mailer>>

\* Redis stops answering, for good
Outage ==
  /\ ~outage
  /\ outage' = TRUE
  /\ UNCHANGED <<auth, store, listing, lookup, forms, mailer>>

\* a step of handler r that its pending call allows: a cache call resolves
\* only while Redis answers, a store call always does
Resume(r) ==
  \/ ~outage /\ (CacheGet(r) \/ CacheGetError(r) \/ CacheSet(r) \/ CacheSetError(r))
  \/ StoreFindMany(r)
  \/ StoreCount(r)

\* no commit of another actor falls between the two statements of a transaction
Settled == \A r \in Req : pc[r] # "count"

\* clients that send one request at a time, each after the answer to the last;
\* the first handler serves them all
OneAtATime(r) ==
  /\ InFlight = {}
  /\ r = 1
  /\ dpc \in {"new", "done"}

\* the life of cache entries: requests, cache clears, time passing, Redis and
\* database failures, rows inserted and deleted
Next ==
  \/ \E r \in Req : \E raw \in workload : OneAtATime(r) /\ Start(r, raw)
  \/ \E r \in Req : CacheGet(r)
  \/ \E r \in Req : CacheGetError(r)
  \/ \E r \in Req : StoreFindMany(r)
  \/ \E r \in Req : StoreCount(r)
  \/ \E r \in Req : StoreQueryFail(r)
  \/ \E r \in Req : CacheSet(r)
  \/ \E r \in Req : CacheSetError(r)
  \/ (InFlight = {} /\ DeleteStart)
  \/ ScanStep
  \/ ScanEnd
  \/ Del
  \/ DeleteError
  \/ \E d \in TickSteps : Tick(d)
  \/ (Settled /\ InsertRow)
  \/ \E w \in store : Settled /\ DeleteRow(w)

\* the listing over every kind of query string and a table whose rows are
\* hidden, deleted and inserted; no cache clear and no expiry
NextListing ==
  \/ \E r \in Req : \E raw \in workload : OneAtATime(r) /\ Start(r, raw)
  \/ \E r \in Req : CacheGet(r)
  \/ \E r \in Req : CacheGetError(r)
  \/ \E r \in Req : StoreFindMany(r)
  \/ \E r \in Req : StoreCount(r)
  \/ \E r \in Req : StoreQueryFail(r)
  \/ \E r \in Req : CacheSet(r)
  \/ \E r \in Req : CacheSetError(r)
  \/ \E w \in store : Settled /\ SetVisibility(w)
  \/ \E w \in store : Settled /\ DeleteRow(w)
  \/ (Settled /\ InsertRow)

\* requests that overlap one another while Redis and the database answer, and
\* other actors commit at any moment,
\* also between the two statements of a transaction
NextRace ==
  \/ \E r \in Req : \E raw \in workload : Start(r, raw)
  \/ \E r \in Req : CacheGet(r)
  \/ \E r \in Req : StoreFindMany(r)
  \/ \E r \in Req : StoreCount(r)
  \/ \E r \in Req : CacheSet(r)
  \/ \E w \in store : SetVisibility(w)
  \/ \E w \in store : DeleteRow(w)
  \/ InsertRow

Spec == Init /\ [][Next]_vars

\* requests while Redis may stop answering and the database answers
NextOutage ==
  \/ \E r \in Req : \E raw \in workload : Start(r, raw)
  \/ \E r \in Req : Resume(r)
  \/ Outage

\* single-record lookups over a table whose rows are hidden, deleted and inserted
NextLookup ==
  \/ \E id \in LookupIds : GetById(id)
  \/ \E id \in LookupIds : GetByIdFail(id)
  \/ \E w \in store : SetVisibility(w)
  \/ \E w \in store : DeleteRow(w)
  \/ InsertRow

SpecRace == InitRace /\ [][NextRace]_vars

\* every pending call that can resolve does: the event loop runs the handler on
SpecOutage ==
  InitLookup /\ [][NextOutage]_vars /\ \A r \in Req : WF_vars(Resume(r))

SpecLookup == InitLookup /\ [][NextLookup]_vars

\* enquiries and customer requests posted one after another while the
\* database answers or fails and notifications end in any way or never
NextForms ==
  \/ \E body \in EnquiryBodies : PostEnquiry(body)
  \/ \E t \in {"int", "bigint"} : EnquiryCreated(t)
  \/ EnquiryCreateFailed
  \/ \E body \in CustomerRequestBodies : PostCustomerRequest(body)
  \/ \E t \in {"int", "bigint"} : CustomerRequestCreated(t)
  \/ CustomerRequestCreateFailed
  \/ RunImmediate
  \/ \E i \in 1..MaxPosts :
       \E outcome \in {"sent", "failed", "rateLimited", "rejected"} :
         NotificationEnds(i, outcome)

SpecForms == InitLookup /\ [][NextForms]_vars

\* a run of the notification service, configured or not
InitMail ==
  /\ Started
  /\ store = InitialTable
  /\ CACHE_TTL = Undef
  /\ workload = {QAll}
  /\ configured \in BOOLEAN

\* calls of sendEmail that overlap in any way, each send delivered or not
NextMail ==
  \/ \E c \in MailCalls : SendEmail(c)
  \/ \E c \in MailCalls : SendResolved(c)
  \/ \E c \in MailCalls : SendRejected(c)

SpecMail == InitMail /\ [][NextMail]_vars

\* requests with every kind of Authorization header, one after another
NextAuth ==
  \/ \E header \in AuthHeaders : VerifyToken(header)
  \/ RequireAdmin

SpecAuth == InitLookup /\ [][NextAuth]_vars

\* the calls the service gets over the hours: two callers, each calling again
\* after its call has returned, sends in flight while the hours pass
NextWindows ==
  \/ \E c \in {1, 2} : SendEmail(c)
  \/ \E c \in {1, 2} : SendResolved(c)
  \/ \E c \in {1, 2} : SendRejected(c)
  \/ \E c \in {1, 2} : NextCall(c)
  \/ HourPasses

SpecWindows == InitMail /\ [][NextWindows]_vars

\* a run over filters of every form and stored photos of every form
InitQueries ==
  /\ Started
  /\ store \in PhotoTables
  /\ configured = TRUE
  /\ CACHE_TTL = Undef
  /\ workload \in FilterWorkloads

\* requests one after another while Redis and the database answer and the
\* table stays as it is
NextQueries ==
  \/ \E r \in Req : \E raw \in workload : OneAtATime(r) /\ Start(r, raw)
  \/ \E r \in Req : CacheGet(r)
  \/ \E r \in Req : StoreFindMany(r)
  \/ \E r \in Req : StoreCount(r)
  \/ \E r \in Req : CacheSet(r)

SpecQueries == InitQueries /\ [][NextQueries]_vars

\* requests that overlap one another and a DELETE /cache/warehouses while
\* Redis and the database answer and another client writes a key of its own
NextClear ==
  \/ \E r \in Req : \E raw \in workload : Start(r, raw)
  \/ \E r \in Req : CacheGet(r)
  \/ \E r \in Req : StoreFindMany(r)
  \/ \E r \in Req : StoreCount(r)
  \/ \E r \in Req : CacheSet(r)
  \/ DeleteStart
  \/ ScanStep
  \/ ScanEnd
  \/ Del
  \/ OtherKeyWritten

SpecClear == InitRace /\ [][NextClear]_vars

SpecListing == InitListing /\ [][NextListing]_vars

(***************************************************************************)
(* Properties                                                              *)
(***************************************************************************)
\* the handlers that have answered their request
Answered == {r \in Req : res[r] # NoRes}

\* the handlers that answered 200 with a response computed from the table
FromStore == {r \in Answered : res[r].status = 200 /\ res[r].source = "store"}

\* the handlers that answered from the cache
FromCache == {r \in Answered : res[r].status = 200 /\ res[r].source = "cache"}

\* the body a request with query string raw gets when computed from table
ComputedFrom(raw, table, counted) ==
  JSONStringify(responseData(raw, findMany(table, raw), count(counted, raw)))

\* the body a request with query string raw gets when both statements read table
Computed(raw, table) == ComputedFrom(raw, table, table)

\* C1: no 200 response of GET /warehouses computed from the store contains a
\* record whose visibility is false in the table state the response was read from
C1_NoHiddenRecordListed ==
  \A r \in FromStore :
    \A i \in 1..Len(res[r].body.data) :
      \A w \in fetched[r].table :
        w.id = res[r].body.data[i].id => w.visibility

\* C2: a cache hit serves the response the request's own filters, page and
\* pageSize give over the table contents the entry was computed from (requests
\* whose responses differ over the same contents never share a cache key)
C2_HitServesOwnFilters ==
  \A r \in FromCache :
    res[r].body = Computed(query[r], trace[r].entry.table)

\* C3: a request identical to the one that wrote an entry, whose cache read
\* answers while that entry is there, performs no store query and gets exactly
\* the body the writer of the entry got
C3_RepeatServedFromCache ==
  \A r \in Answered :
    (/\ trace[r].read # "error"
     /\ trace[r].entry # NoEntry
     /\ trace[r].entry.by = query[r])
    => /\ res[r].status = 200
       /\ res[r].source = "cache"
       /\ ~trace[r].queried
       /\ res[r].body = trace[r].entry.sent

\* C3 witness: a repeated request was answered from the cache although the
\* table has changed since the entry was computed
C3_Witness ==
  \E r \in FromCache :
    /\ trace[r].entry.by = query[r]
    /\ trace[r].entry.table # store
    /\ Len(res[r].body.data) > 0

\* C4: a listing request answers 500 only when the store query failed, and when
\* both the cache read and the cache write threw it answers 200 with the
\* response computed from the store
C4_CacheErrorsNeverFail ==
  \A r \in Answered :
    /\ res[r].status = 500 => trace[r].storeFailed
    /\ (trace[r].read = "error" /\ trace[r].write = "error")
       => /\ res[r].status = 200
          /\ res[r].body = ComputedFrom(query[r], fetched[r].table, fetched[r].counted)

\* C4 witness: a request whose cache read and cache write both threw was
\* answered 200 with rows
C4_Witness ==
  \E r \in Answered :
    /\ trace[r].read = "error"
    /\ trace[r].write = "error"
    /\ res[r].status = 200
    /\ Len(res[r].body.data) > 0

\* C5: the first request after a DELETE /cache/warehouses that answered 200,
\* with no request in between, misses the cache and queries the store
C5_ClearForcesFreshQuery ==
  \A r \in Answered :
    afterClear[r] => trace[r].read # "hit" /\ trace[r].queried

\* C5 witness: the DELETE removed an entry with the key of the request that
\* follows it, and that request was answered from the store
C5_Witness ==
  \E r \in FromStore :
    /\ afterClear[r]
    /\ dres.status = 200
    /\ dres.body.message = "Cache cleared successfully"
    /\ dres.body.clearedKeys >= 1
    /\ cacheKey(query[r]) \in keys
    /\ trace[r].read = "miss"

\* the TTL the environment configures: CACHE_TTL when it is a number (0
\* included), the default otherwise
ConfiguredTTL ==
  IF parseInt(CACHE_TTL).t = "int" THEN parseInt(CACHE_TTL).v ELSE DefaultTTL

\* C6: an entry is served only while less than the configured TTL has elapsed
\* since it was written, also when the configured TTL is 0
C6_ServedWithinConfiguredTTL ==
  \A r \in FromCache : trace[r].entry.age < ConfiguredTTL

\* the decimal digits of k >= 0, as a query value
RECURSIVE ToDigits(_)
ToDigits(k) ==
  IF k < 10 THEN <<DigitChars[k + 1]>>
  ELSE ToDigits(k \div 10) \o <<DigitChars[(k % 10) + 1]>>

\* the query string asking for page p with page size ps and no filter
PageQuery(p, ps) == <<P("page", ToDigits(p)), P("pageSize", ToDigits(ps))>>

RECURSIVE ConcatPages(_, _, _)
ConcatPages(table, ps, p) ==
  IF p = 0 THEN <<>>
  ELSE ConcatPages(table, ps, p - 1) \o Computed(PageQuery(p, ps), table).data

NoFilters(raw) == filters(raw) = <<>> /\ ~needsSpaceFilter(raw)

\* C7: for a table of N records, no filters and a positive pageSize, every
\* page 1..ceil(N/pageSize) reports totalPages = ceil(N/pageSize), and the data
\* of pages 1, 2, ... in order are the records in descending id order, each
\* once; the response sent is the page asked for
C7_PagesPartitionTheTable ==
  \A r \in FromStore :
    (NoFilters(query[r]) /\ pageSize(query[r]) > 0
       /\ fetched[r].table = fetched[r].counted) =>
      LET table == fetched[r].table
          ps == pageSize(query[r])
          N == Cardinality(table)
          last == (N + ps - 1) \div ps
          all == ConcatPages(table, ps, last)
      IN /\ \A p \in 1..last :
              Computed(PageQuery(p, ps), table).pagination.totalPages = last
         /\ Len(all) = N
         /\ {all[i].id : i \in 1..Len(all)} = {w.id : w \in table}
         /\ \A i \in 1..(Len(all) - 1) : all[i].id > all[i + 1].id
         /\ page(query[r]) \in 1..last =>
              res[r].body = Computed(PageQuery(page(query[r]), ps), table)

\* C7 witness: page 2 of 2 of a three-record table was answered from the store
C7_Witness ==
  \E r \in FromStore :
    /\ query[r] = QPage2
    /\ Cardinality(fetched[r].table) = 3
    /\ res[r].body.pagination.totalPages = 2
    /\ Len(res[r].body.data) = 1

\* the space bounds of raw are integers where they are set
IntegerBounds(raw) == minSpace(raw) # NaN /\ maxSpace(raw) # NaN

\* some element of the sequence satisfies every bound that is set
InRange(spaces, mn, mx) ==
  \E i \in 1..Len(spaces) :
    /\ mn # Null => spaces[i] >= mn.v
    /\ mx # Null => spaces[i] <= mx.v

Ids(rows) == [i \in 1..Len(rows) |-> rows[i].id]

\* C8: with minSpace and/or maxSpace set, a fetched record is kept exactly
\* when some element of its totalSpaceSqft satisfies every active bound at
\* once (none when the sequence is empty): totalItems counts the kept records
\* and data is their page; of [100,500], [600], [50] with minSpace=200 and
\* maxSpace=550 only the first is returned, with totalItems 1
C8_PostFilterAnyElementInRange ==
  \A r \in FromStore :
    (needsSpaceFilter(query[r]) /\ IntegerBounds(query[r])) =>
      LET rows == fetched[r].warehouses
          mn == minSpace(query[r])
          mx == maxSpace(query[r])
          kept == SelectSeq(rows, LAMBDA w : InRange(w.totalSpaceSqft, mn, mx))
          start == (page(query[r]) - 1) * pageSize(query[r])
          body == res[r].body
      IN /\ body.pagination.totalItems = Len(kept)
         /\ Ids(body.data) = Ids(Slice(kept, start, start + pageSize(query[r])))
         /\ (/\ [i \in 1..Len(rows) |-> rows[i].totalSpaceSqft]
                  = <<<<100, 500>>, <<600>>, <<50>>>>
             /\ mn = Int_(200)
             /\ mx = Int_(550))
            => /\ Ids(body.data) = <<rows[1].id>>
               /\ body.pagination.totalItems = 1

\* C8 witness: the example of the claim was answered
C8_Witness ==
  \E r \in FromStore :
    /\ query[r] = QSpace
    /\ [i \in 1..Len(fetched[r].warehouses) |-> fetched[r].warehouses[i].totalSpaceSqft]
         = <<<<100, 500>>, <<600>>, <<50>>>>
    /\ Ids(res[r].body.data) = <<3>>
    /\ res[r].body.pagination.totalItems = 1

\* raw without the minSpace and maxSpace parameters that do not parse as integers
WithoutUnparsedBounds(raw) ==
  SelectSeq(raw, LAMBDA p : ~(p[1] \in {"minSpace", "maxSpace"} /\ parseIntStr(p[2]) = NaN))

\* C9: a request whose minSpace or maxSpace does not parse as an integer is
\* answered 200 with the response of the same request without that parameter
C9_UnparsedBoundIsAbsent ==
  \A r \in Answered :
    (~trace[r].storeFailed /\ trace[r].read # "hit") =>
      /\ res[r].status = 200
      /\ res[r].body = Computed(WithoutUnparsedBounds(query[r]), fetched[r].table)

\* the candidates the query gives for a filter field
Candidates(raw, field) ==
  IF Truthy(ReqQuery(raw, field)) THEN parseMultiValue(ReqQuery(raw, field)) ELSE <<>>

Range(seq) == {seq[i] : i \in 1..Len(seq)}

\* the same page, page size and space bounds, and for every field the same
\* set of candidates under the same semantics (contains for one candidate,
\* equals-any-of for two or more)
SameEffectiveFilters(a, b) ==
  /\ page(a) = page(b)
  /\ pageSize(a) = pageSize(b)
  /\ minSpace(a) = minSpace(b)
  /\ maxSpace(a) = maxSpace(b)
  /\ \A i \in 1..Len(filterFields) :
       LET ca == Candidates(a, filterFields[i])
           cb == Candidates(b, filterFields[i])
       IN /\ Range(ca) = Range(cb)
          /\ (Len(ca) >= 2) = (Len(cb) >= 2)

\* the handlers that have received a request
Received == {r \in Req : pc[r] # "idle" \/ res[r] # NoRes}

\* C10: two requests with the same page and pageSize whose query strings
\* express the same effective filters (another parameter order, comma-joined
\* or repeated values, another candidate order, duplicate candidates) get the
\* same cache key
C10_EquivalentQueriesShareKey ==
  \A r \in Received :
    \A raw \in workload :
      SameEffectiveFilters(query[r], raw) => cacheKey(query[r]) = cacheKey(raw)

\* the least k with k * b >= a, for a >= 0 and b > 0
LeastMultiple(a, b) == CHOOSE k \in 0..a : k * b >= a /\ \A j \in 0..(k - 1) : j * b < a

\* C11: in every 200 response computed from the store, totalPages is
\* ceil(totalItems / pageSize); totalItems is the store's count of the records
\* matching the store-side filters when no space bound is active, and the number
\* of fetched records passing the space post-filter when one is
C11_CountersAgree ==
  \A r \in FromStore :
    LET raw == query[r]
        body == res[r].body
        matching == {w \in fetched[r].counted : Matches(w, filters(raw))}
        passing == SelectSeq(fetched[r].warehouses,
                     LAMBDA w : PassesSpace(w, minSpace(raw), maxSpace(raw)))
    IN pageSize(raw) > 0 =>
         /\ body.pagination.totalPages
              = LeastMultiple(body.pagination.totalItems, pageSize(raw))
         /\ body.pagination.totalItems
              = IF needsSpaceFilter(raw) THEN Len(passing) ELSE Cardinality(matching)

\* C11 witness: with a space bound active two fetched records passed the
\* post-filter and the response reports one page of ten
C11_Witness ==
  \E r \in FromStore :
    /\ query[r] = QMin
    /\ res[r].body.pagination.totalItems = 2
    /\ res[r].body.pagination.totalPages = 1
    /\ Len(fetched[r].warehouses) = 3

\* C12: while other actors insert, delete or modify records, the page fetch
\* and the count of one request observe the same store state: in a response
\* without a space bound, data is the slice [skip, skip + pageSize) of the
\* id-descending matching records of the state in which totalItems was counted
C12_PageAndCountSameState ==
  \A r \in FromStore :
    ~needsSpaceFilter(query[r]) =>
      LET raw == query[r]
          hits == OrderDesc({w \in fetched[r].counted : Matches(w, filters(raw))})
          slice == Slice(hits, skip(raw), skip(raw) + pageSize(raw))
      IN /\ res[r].body.pagination.totalItems = Len(hits)
         /\ res[r].body.data = [i \in 1..Len(slice) |-> JsonRow(Format(Select(slice[i])))]

\* C13: when the store query of a listing request fails, the request ends
\* with status 500 and the fixed body {error: 'An error occurred while fetching
\* warehouses.'} without any detail of the store error, and the request makes
\* no cache write
C13_StoreFailureIs500 ==
  /\ [](\A r \in Req :
          trace[r].storeFailed =>
            /\ pc[r] = "idle"
            /\ res[r].status = 500
            /\ res[r].body = [error |-> "An error occurred while fetching warehouses."]
            /\ trace[r].write = "none")
  /\ [][\A r \in Req :
          (trace'[r].storeFailed /\ ~trace[r].storeFailed) => cache' = cache]_vars

\* C13 witness: the store query failed after the cache read threw, while the
\* cache held an entry for the request's key; the entry is still there
C13_Witness ==
  \E r \in Answered :
    /\ trace[r].storeFailed
    /\ trace[r].read = "error"
    /\ res[r].status = 500
    /\ trace[r].entry \in cache

\* C14: DELETE /cache/warehouses responds 500 with {error} whenever the key
\* scan or the key deletion failed, and 200 only when neither did
C14_ClearFailureIs500 ==
  dpc = "done" =>
    /\ dres.status \in {200, 500}
    /\ dres.failed # "none" =>
         dres.status = 500 /\ dres.body = [error |-> "Failed to clear cache"]
    /\ dres.status = 200 => dres.failed = "none"

\* C14 witness: the scan had collected keys and the deletion threw
C14_Witness ==
  /\ dpc = "done"
  /\ dres.failed = "del"
  /\ dres.status = 500
  /\ keys # {}
  /\ keys \subseteq CacheKeys

\* C15: getWarehouseById never returns a record whose visibility is false: for
\* the id of an existing but hidden warehouse it responds 404 'Warehouse not
\* found', exactly as for an id that does not exist
C15_HiddenRecordIs404 ==
  /\ (lookup.res.status = 200) =>
       \A w \in lookup.table : w.id = lookup.res.body.id => w.visibility
  /\ \A w \in lookup.table :
       (~lookup.failed /\ ~w.visibility /\ parseIntStr(lookup.id) = Int_(w.id)) =>
         /\ lookup.res = [status |-> 404, body |-> [error |-> "Warehouse not found"]]
         /\ lookup.res = getWarehouseById(lookup.table \ {w}, lookup.id)

\* C15 witness: the id of a hidden row, written with trailing text that
\* parseInt ignores, was answered 404
C15_Witness ==
  /\ lookup.id = <<"2", "x">>
  /\ lookup.res.status = 404
  /\ \E w \in lookup.table : w.id = 2 /\ ~w.visibility

\* C16: every GET /warehouses request eventually receives a response provided
\* the store answers, even when the cache never answers a get or setEx call
C16_EventuallyAnswered ==
  \A r \in Req : (pc[r] # "idle") ~> (pc[r] = "idle")

\* two handlers whose requests had the same cache key and both missed
BothMissed(a, b) ==
  /\ a # b
  /\ {a, b} \subseteq Answered
  /\ cacheKey(query[a]) = cacheKey(query[b])
  /\ trace[a].read = "miss"
  /\ trace[b].read = "miss"

\* C17: two concurrent requests with the same cache key that both miss the
\* cache each query the store and each get a 200 response computed from it,
\* whatever the other does meanwhile; afterwards the cache holds for that key
\* the response written by one of the two
C17_RedundantMissesBothServed ==
  /\ \A r \in Answered :
       trace[r].read = "miss" =>
         trace[r].queried /\ res[r].status = 200 /\ res[r].source = "store"
  /\ \A a, b \in Req :
       BothMissed(a, b) =>
         /\ cacheKey(query[a]) \in CacheKeys
         /\ EntryOf(cacheKey(query[a])).value \in {res[a].body, res[b].body}

\* C17 witness: both requests missed (the second read the cache before the
\* first wrote it), a commit fell between their store queries, and the cache
\* holds the response of the second
C17_Witness ==
  /\ BothMissed(1, 2)
  /\ res[1].body # res[2].body
  /\ EntryOf(cacheKey(query[1])).value = res[2].body

\* the POST requests of the kind whose database create succeeded
Created(kind) ==
  {i \in DOMAIN answered :
     answered[i].kind = kind /\ answered[i].created # NoRow}

\* how many times the notification fn has been queued or called with the record
Notifications(fn, record) ==
  Cardinality({j \in DOMAIN immediates :
                 immediates[j].fn = fn /\ immediates[j].arg = record})
  + Cardinality({j \in DOMAIN calls :
                   calls[j].fn = fn /\ calls[j].arg = record})

\* C18: once createCustomerRequest has created a record and answered, one call
\* of sendCustomerRequestNotification with that record is queued behind the
\* response or has been made, and no second one
C18_RequestNotifiedOnce ==
  \A i \in Created("customer_request") :
    Notifications("sendCustomerRequestNotification", answered[i].created) = 1

\* C19: every call of sendEnquiryNotification, made or queued, carries a
\* record that prisma.enquiry.create has created and that is saved; every
\* created enquiry has exactly one of them; and there are as many of them as
\* created enquiries, so none belongs to a request that failed validation or
\* whose create failed
C19_EnquiryNotifiedOncePerRecord ==
  /\ \A j \in DOMAIN calls :
       /\ calls[j].fn = "sendEnquiryNotification"
       /\ calls[j].arg \in enquiry
       /\ \E i \in Created("enquiry") : answered[i].created = calls[j].arg
  /\ \A j \in DOMAIN immediates :
       \E i \in Created("enquiry") : answered[i].created = immediates[j].arg
  /\ \A i \in Created("enquiry") :
       Notifications("sendEnquiryNotification", answered[i].created) = 1
  /\ Len(calls) + Len(immediates) = Cardinality(Created("enquiry"))

\* one enquiry was created and its notification called, another request's
\* create failed
C19_Witness ==
  /\ \E j \in DOMAIN calls : calls[j].arg \in enquiry
  /\ \E i \in DOMAIN answered :
       answered[i].kind = "enquiry" /\ answered[i].res.status = 500
  /\ Cardinality(Created("enquiry")) = 1

\* the calls of the notification service that did not deliver
FailedCalls ==
  {j \in DOMAIN calls :
     calls[j].outcome \in {"failed", "rateLimited", "rejected"}}

\* C20: every enquiry that passed validation and was created is answered 201
\* with the created record, and the record is in the table; this stays so
\* however its notification ends or while it never ends; a notification that
\* failed, was refused by the rate limit or rejected is logged, and no
\* callback ends in an unhandled rejection
C20_NotificationNeverHurtsEnquiry ==
  /\ \A i \in Created("enquiry") :
       /\ answered[i].res = [status |-> 201,
                             body |-> sanitizeForJSON(answered[i].created)]
       /\ answered[i].created \in enquiry
       /\ EnquiryRefusal(answered[i].body) = NoRes
  /\ \A j \in FailedCalls : \E entry \in logged : entry.id = calls[j].arg.id
  /\ unhandled = {}

\* the notification of a created enquiry rejected, that of another was
\* refused by the rate limit
C20_Witness ==
  /\ \E j \in DOMAIN calls :
       calls[j].outcome = "rejected" /\ calls[j].arg \in enquiry
  /\ \E j \in DOMAIN calls :
       calls[j].outcome = "rateLimited" /\ calls[j].arg \in enquiry

\* C21: a call of sendEnquiryNotification only exists for a record whose
\* request has been answered; and in the step in which createEnquiry answers,
\* no call of the service is made or ended: the record's notification is
\* queued and not yet called, so the response waits on no notification
C21_ResponseBeforeNotification ==
  /\ [](\A j \in DOMAIN calls :
          \E i \in DOMAIN answered :
            answered[i].res.status = 201 /\ answered[i].created = calls[j].arg)
  /\ [][Len(answered') > Len(answered) =>
          /\ calls' = calls
          /\ LET last == answered'[Len(answered')]
             IN (last.kind = "enquiry" /\ last.created # NoRow) =>
                  /\ \A j \in DOMAIN calls' : calls'[j].arg # last.created
                  /\ \E j \in DOMAIN immediates' :
                       immediates'[j].arg = last.created]_vars

\* a second request was answered while the notification of the first, created,
\* enquiry has started and not ended
C21_Witness ==
  /\ Len(answered) = 2
  /\ answered[1].kind = "enquiry" /\ answered[1].res.status = 201
  /\ \E j \in DOMAIN calls :
       calls[j].arg = answered[1].created /\ calls[j].outcome = "pending"

\* C22: each window counter stays at or below its limit
C22_CountersWithinLimits ==
  /\ emailCounts.hourly <= HOURLY_LIMIT
  /\ emailCounts.daily <= DAILY_LIMIT
  /\ emailCounts.monthly <= MONTHLY_LIMIT

\* the sends of call c that were attempted, in the order of the attempts
Attempted(c) == [k \in DOMAIN mail[c].results |-> mail[c].results[k].recipient]

\* the calls of sendEmail that went past both checks and have returned
SentOut == {c \in MailCalls : mail[c].pc = "done" /\ mail[c].results # <<>>}

\* C27: a call of sendEmail that passed the rate-limit and configuration
\* checks attempts its sends in the order of NOTIFICATION_RECIPIENTS, and by
\* its return has attempted one send to every recipient, failed sends
\* included; every call that has ended has returned a result
C27_EveryRecipientAttempted ==
  /\ \A c \in MailCalls :
       mail[c].pc = "send" =>
         /\ mail[c].i = Len(mail[c].results) + 1
         /\ Attempted(c) = SubSeq(NOTIFICATION_RECIPIENTS, 1, mail[c].i - 1)
  /\ \A c \in MailCalls :
       mail[c].pc = "done" =>
         /\ "success" \in DOMAIN mail[c].result
         /\ mail[c].results # <<>> => Attempted(c) = NOTIFICATION_RECIPIENTS
         /\ (mail[c].results = <<>>) =
              (mail[c].result.rateLimited \/ ~configured)

\* a call whose send to the first recipient failed and whose send to the
\* second was delivered
C27_Witness ==
  \E c \in SentOut :
    /\ ~mail[c].results[1].success
    /\ mail[c].results[2].success
    /\ mail[c].result.success

\* a non-empty string that is not only blanks
IsText(v) == v.k = "str" /\ \E k \in DOMAIN v.s : v.s[k] # " "

\* every field of the enquiry body passes its validation
ValidEnquiry(body) ==
  /\ body.json
  /\ IsText(body.name)
  /\ isValidPhoneNumber(body.phoneNumber)
  /\ (body.email.k = "str" \/ body.email.k = "undef")
  /\ IsText(body.source)

\* the fields of the customer request body that fail their validation
InvalidFields(body) ==
  {f \in {"full_name", "company_name", "preferred_location",
          "additional_requirements"} : ~IsText(body[f])}
  \cup (IF isValidPhoneNumber(body.phone_number) THEN {} ELSE {"phone_number"})

ValidBody(kind, body) ==
  IF kind = "enquiry" THEN ValidEnquiry(body)
  ELSE body.json /\ InvalidFields(body) = {}

\* C23: the handler awaits the database create only for a body whose every
\* field is valid; a request with an invalid body is answered 400 and has
\* created nothing, for a customer request with fields naming exactly the
\* invalid fields, each once; the tables hold only the records of the requests
\* whose create succeeded, and notifications exist only for those
C23_InvalidBodyCreatesNothing ==
  /\ post.pc # "idle" => ValidBody(post.kind, post.body)
  /\ \A i \in DOMAIN answered :
       ~ValidBody(answered[i].kind, answered[i].body) =>
         /\ answered[i].res.status = 400
         /\ answered[i].created = NoRow
         /\ (answered[i].kind = "customer_request" /\ answered[i].body.json) =>
              /\ Range(answered[i].res.body.fields)
                   = InvalidFields(answered[i].body)
              /\ Len(answered[i].res.body.fields)
                   = Cardinality(InvalidFields(answered[i].body))
  /\ enquiry = {answered[i].created : i \in Created("enquiry")}
  /\ customer_request = {answered[i].created : i \in Created("customer_request")}
  /\ \A i \in Created("enquiry") \cup Created("customer_request") :
       ValidBody(answered[i].kind, answered[i].body)
  /\ Len(calls) + Len(immediates) <= Cardinality(Created("enquiry"))

\* a customer request with two invalid fields and an enquiry with an invalid
\* field were refused
C23_Witness ==
  /\ \E i \in DOMAIN answered :
       /\ answered[i].kind = "customer_request"
       /\ answered[i].body.json
       /\ Cardinality(InvalidFields(answered[i].body)) = 2
  /\ \E i \in DOMAIN answered :
       /\ answered[i].kind = "enquiry"
       /\ answered[i].body.json
       /\ ~ValidEnquiry(answered[i].body)


\* a query parameter with a malformed filter value: a range bound that is not
\* a number, or a fireNocAvailable that is neither 'true' nor 'false'
Malformed(p) ==
  \/ /\ p[1] \in {"minBudget", "maxBudget", "minClearHeight", "maxClearHeight"}
     /\ p[2] # <<>>
     /\ \E i \in 1..Len(p[2]) : ~IsDigit(p[2][i])
  \/ /\ p[1] = "fireNocAvailable"
     /\ p[2] \notin {<<"t", "r", "u", "e">>, <<"f", "a", "l", "s", "e">>}

\* raw without its malformed parameters
WithoutMalformed(raw) == SelectSeq(raw, LAMBDA p : ~Malformed(p))

\* C24: a request with a malformed filter value (a non-numeric minBudget,
\* maxBudget, minClearHeight or maxClearHeight, a fireNocAvailable that is
\* neither 'true' nor 'false') does not fail, passes to the store the where
\* clause of the same request without that parameter, and gets that request's
\* response
C24_MalformedFilterDropped ==
  \A r \in Answered :
    (~trace[r].storeFailed /\ trace[r].read # "hit") =>
      /\ res[r].status = 200
      /\ filters(query[r]) = filters(WithoutMalformed(query[r]))
      /\ res[r].body = Computed(WithoutMalformed(query[r]), fetched[r].table)


\* the photos the response is to show for a stored value: none for null or
\* '', the decoded array (or the one decoded value, or the text itself when it
\* does not decode) for a text that starts with [ or {, the text itself for
\* any other text
Decoded(photos) ==
  IF photos = Null \/ photos.s = <<>> THEN <<>>
  ELSE IF Head(photos.s) \notin {"[", "{"} \/ ~JSONParseText(photos.s).ok
    THEN <<[k |-> "str", s |-> photos.s]>>
  ELSE IF JSONParseText(photos.s).value.k = "arr"
    THEN JSONParseText(photos.s).value.a
  ELSE <<JSONParseText(photos.s).value>>

\* C25: every record of a GET /warehouses response computed from the store
\* shows the photos decoded from the stored value in that way; texts such as
\* '123', 'true' and 'null' are shown verbatim as the single photo
C25_PhotosDecoded ==
  \A r \in FromStore :
    \A i \in 1..Len(res[r].body.data) :
      \A w \in fetched[r].table :
        w.id = res[r].body.data[i].id =>
          res[r].body.data[i].photos = Decoded(w.photos)


\* the entries of the where clause on one column
PredicatesOn(raw, column) == SelectSeq(filters(raw), LAMBDA e : e[1] = column)

\* the entries the candidates of a field call for: none, contains, equals any of
PredicatesFor(field, candidates) ==
  IF candidates = <<>> THEN <<>>
  ELSE IF Len(candidates) = 1
    THEN << <<field, [op |-> "contains", vals |-> candidates]>> >>
  ELSE << <<field, [op |-> "in", vals |-> candidates]>> >>

\* C26: in every store query of GET /warehouses the predicate on each of city,
\* state, warehouseType, zone, contactPerson and compliances is fixed by the
\* number of candidates the query gives for it (none: no predicate, one:
\* contains, two or more: equals any of them, all case-insensitive), and
\* address gets one contains on its whole value, commas included
C26_CandidateCountFixesPredicate ==
  \A r \in Req :
    trace[r].queried =>
      /\ \A i \in 1..Len(filterFields) :
           PredicatesOn(query[r], filterFields[i])
             = PredicatesFor(filterFields[i], Candidates(query[r], filterFields[i]))
      /\ PredicatesOn(query[r], "address")
           = IF Truthy(ReqQuery(query[r], "address"))
               THEN << <<"address", [op |-> "contains",
                                     vals |-> <<ReqQuery(query[r], "address").s>>]>> >>
               ELSE <<>>

\* a store query with two candidates for city, one for zone, none for the
\* empty state and an address, answered with the three rows it matches
C26_Witness ==
  \E r \in FromStore :
    /\ Len(Candidates(query[r], "city")) = 2
    /\ Len(Candidates(query[r], "zone")) = 1
    /\ ValuesOf(query[r], "state") = <<<<>>>>
    /\ Candidates(query[r], "state") = <<>>
    /\ PredicatesOn(query[r], "address") # <<>>
    /\ Ids(res[r].body.data) = <<3, 2, 1>>


\* the ids, highest first, of the rows of table that satisfy every filter of
\* raw, the space bounds included
MatchingIds(raw, table) ==
  Ids(OrderDesc({w \in table :
        /\ Matches(w, filters(raw))
        /\ needsSpaceFilter(raw) => PassesSpace(w, minSpace(raw), maxSpace(raw))}))

\* C28: in every 200 response of GET /warehouses computed from the store,
\* currentPage and pageSize are integers >= 1 whatever page and pageSize the
\* client sent, and data is the page of that index and size of the matching
\* records
C28_PageAndSizePositive ==
  \A r \in FromStore :
    LET pg == res[r].body.pagination
    IN /\ pg.currentPage >= 1
       /\ pg.pageSize >= 1
       /\ Ids(res[r].body.data)
            = Slice(MatchingIds(query[r], fetched[r].table),
                    (pg.currentPage - 1) * pg.pageSize, pg.currentPage * pg.pageSize)


\* raw asking for page p instead of the page it asks for
AtPage(raw, p) ==
  SelectSeq(raw, LAMBDA e : e[1] # "page") \o <<P("page", ToDigits(p))>>

\* C29: for a request with a space bound and a positive pageSize, every row
\* of the table that satisfies all its filters, the space bound included, is in
\* the data of some page p >= 1 of the same request over the same table
C29_EveryMatchOnSomePage ==
  \A r \in FromStore :
    (needsSpaceFilter(query[r]) /\ IntegerBounds(query[r])
       /\ pageSize(query[r]) > 0 /\ fetched[r].table = fetched[r].counted) =>
      \A i \in 1..Len(MatchingIds(query[r], fetched[r].table)) :
        \E p \in 1..(Cardinality(fetched[r].table) + 1) :
          \E j \in 1..Len(Computed(AtPage(query[r], p), fetched[r].table).data) :
            Computed(AtPage(query[r], p), fetched[r].table).data[j].id
              = MatchingIds(query[r], fetched[r].table)[i]


\* C30: for a table and a request with a space bound, every page p >= 1 of
\* the same request reports the totalItems and totalPages this response
\* reports, and currentPage is at most totalPages when data is not empty
C30_TotalsSameOnEveryPage ==
  \A r \in FromStore :
    (needsSpaceFilter(query[r]) /\ IntegerBounds(query[r])
       /\ pageSize(query[r]) > 0 /\ page(query[r]) >= 1
       /\ fetched[r].table = fetched[r].counted) =>
      /\ \A p \in 1..(Cardinality(fetched[r].table) + 1) :
           /\ Computed(AtPage(query[r], p), fetched[r].table).pagination.totalItems
                = res[r].body.pagination.totalItems
           /\ Computed(AtPage(query[r], p), fetched[r].table).pagination.totalPages
                = res[r].body.pagination.totalPages
      /\ res[r].body.data # <<>> =>
           res[r].body.pagination.currentPage <= res[r].body.pagination.totalPages


\* C31: once DELETE /cache/warehouses has responded 200, no listing entry in
\* the cache, then or later, was computed by a store query that had answered
\* before the DELETE request began
C31_NoPreClearEntryAfterClear ==
  (dpc = "done" /\ dres.status = 200) =>
    \A e \in cache : MatchesPattern(e.key) => e.clear # "new"


\* C32: no step of DELETE /cache/warehouses adds a cache entry, removes or
\* changes an entry whose key does not match warehouses:*, or changes the
\* warehouse table
C32_ClearTouchesOnlyListingKeys ==
  [][(dpc' # dpc \/ keys' # keys) =>
       /\ cache' \subseteq cache
       /\ \A e \in cache : e.key.prefix # "warehouses" => e \in cache'
       /\ \A e \in cache \ cache' : e.key \in keys
       /\ store' = store]_vars

\* the DELETE removed the listing keys it had scanned and answered 200 while
\* another client's key was in the cache, which is still there
C32_Witness ==
  /\ dpc = "done"
  /\ dres.status = 200
  /\ dres.body.message = "Cache cleared successfully"
  /\ keys # {}
  /\ keys \cap CacheKeys = {}
  /\ OtherEntry \in cache


\* C33: a GET /warehouses answered from the cache leaves the cache as it is;
\* no step of a GET /warehouses handler removes a cache key or changes the
\* table; a change of the table changes no cache entry; and a key leaves the
\* cache only when time passes or DELETE /cache/warehouses deletes it
C33_GetLeavesCacheAndStore ==
  [][/\ \A r \in Req :
          (pc[r] = "cacheGet" /\ pc'[r] = "idle") => cache' = cache
     /\ pc' # pc => (store' = store /\ CacheKeys \subseteq CacheKeys')
     /\ store' # store => cache' = cache
     /\ ~(CacheKeys \subseteq CacheKeys') =>
          (n'.ticks # n.ticks \/ (dpc = "del" /\ dpc' = "done"))]_vars

\* a request was answered from the cache after the table had changed, and the
\* entry it was served is still there as it was
C33_Witness ==
  \E r \in FromCache :
    /\ trace[r].entry \in cache
    /\ trace[r].entry.table # store
    /\ res[r].body = trace[r].entry.sent


\* C34: in every 200 response of GET /warehouses, from the store or from the
\* cache, with or without a space bound, data has at most as many records as
\* the pageSize the pagination reports
C34_DataWithinPageSize ==
  \A r \in Answered :
    res[r].status = 200 =>
      Len(res[r].body.data) <= res[r].body.pagination.pageSize


Windows == {"monthly", "daily", "hourly"}

\* the limit of a window
LimitOf(w) ==
  CASE w = "monthly" -> MONTHLY_LIMIT
    [] w = "daily" -> DAILY_LIMIT
    [] w = "hourly" -> HOURLY_LIMIT

\* the count of a window once the resets that are due have been applied
CountNow(w) == IF now >= resetDate[w] THEN 0 ELSE emailCounts[w]

\* C35: a call of sendEmail that starts while some window's counter, after
\* the resets that are due, has reached its limit attempts no send and returns
\* {success: false, rateLimited: true} with the reset date of an exhausted
\* window, and leaves the three counters as the resets left them; a counter
\* goes up only when a send is delivered, and then each goes up by one
C35_ExhaustedWindowBlocksCall ==
  [][/\ \A c \in MailCalls :
          (mail[c].pc = "new" /\ mail'[c].pc # "new"
             /\ \E w \in Windows : CountNow(w) >= LimitOf(w)) =>
            /\ mail'[c].pc = "done"
            /\ mail'[c].results = <<>>
            /\ ~mail'[c].result.success
            /\ mail'[c].result.rateLimited
            /\ \E w \in Windows :
                 /\ CountNow(w) >= LimitOf(w)
                 /\ mail'[c].result.resetDate = resetDate'[w]
                 /\ resetDate'[w] > now
            /\ \A w \in Windows : emailCounts'[w] = CountNow(w)
     /\ (\E w \in Windows : emailCounts'[w] > emailCounts[w]) =>
          /\ \A w \in Windows : emailCounts'[w] = emailCounts[w] + 1
          /\ \E c \in MailCalls :
               /\ mail[c].pc = "send"
               /\ Len(mail'[c].results) = Len(mail[c].results) + 1
               /\ mail'[c].results[Len(mail'[c].results)].success]_vars

\* a call was refused because ten mails had gone out that day, fewer than
\* five of them in the running hour
C35_Witness ==
  \E c \in MailCalls :
    /\ mail[c].pc = "done"
    /\ mail[c].result.rateLimited
    /\ mail[c].result.window = "daily"
    /\ emailCounts.daily >= DAILY_LIMIT
    /\ emailCounts.hourly < HOURLY_LIMIT


\* C36: whatever calls of sendEmail and window resets happen, the monthly
\* count is at least the daily count, which is at least the hourly count,
\* which is at least 0; and right after the load at the start of a call every
\* window's reset date is later than the time of the call
C36_CountersNested ==
  /\ [](/\ emailCounts.monthly >= emailCounts.daily
        /\ emailCounts.daily >= emailCounts.hourly
        /\ emailCounts.hourly >= 0)
  /\ [][(\E c \in MailCalls : mail[c].pc = "new" /\ mail'[c].pc # "new") =>
          \A w \in Windows : resetDate'[w] > now']_vars

\* mails have gone out in the second month: the monthly window was started
\* again, and so was the hourly one, whose count is below the day's
C36_Witness ==
  /\ resetDate.monthly > getNextMonthReset(0)
  /\ emailCounts.monthly > 0
  /\ emailCounts.daily > emailCounts.hourly
  /\ resetDate.hourly > now


\* C37: for a visible warehouse that has a related WarehouseData row,
\* getWarehouseById reports the stored fireNocAvailable, true or false, which
\* is also what GET /warehouses reports for that record
C37_FireNocSameInBoth ==
  lookup.res.status = 200 =>
    \A w \in lookup.table :
      (w.id = lookup.res.body.id /\ w.warehouseData # NoData) =>
        /\ lookup.res.body.fireNocAvailable = w.warehouseData
        /\ lookup.res.body.fireNocAvailable = Format(Select(w)).fireNocAvailable


\* the token after 'Bearer ' verifies against the secret, the issuer and the
\* audience at the time of the request
Verifies(header) ==
  /\ header.k = "str"
  /\ header.head = "Bearer "
  /\ header.rest.form = "jwt"
  /\ header.rest.signed
  /\ header.rest.time = "active"
  /\ header.rest.iss
  /\ header.rest.aud

\* C38: a request gets past verifyToken and requireAdmin only with a header
\* 'Bearer <token>' whose token verifies and whose role is 'admin'; every
\* other request does not reach the route and is answered 401, or 403 when its
\* token verifies and the role is not 'admin'
C38_ChainPassesOnlyAdmin ==
  (auth.pc = "idle" /\ auth.count > 0) =>
    /\ auth.reached => (Verifies(auth.header) /\ auth.header.rest.role = "admin")
    /\ ~(Verifies(auth.header) /\ auth.header.rest.role = "admin") =>
         /\ ~auth.reached
         /\ auth.res.status =
              IF Verifies(auth.header) THEN 403 ELSE 401

\* what holds of the chain: only a verified admin token reaches the route,
\* and a verified token of another role is answered 403
C38_OnlyAdminReachesRoute ==
  (auth.pc = "idle" /\ auth.count > 0) =>
    /\ auth.reached <=> (Verifies(auth.header) /\ auth.header.rest.role = "admin")
    /\ auth.res.status = 403 <=>
         (Verifies(auth.header) /\ auth.header.rest.role # "admin")
    /\ ~auth.reached => auth.res.status \in {401, 403, 500}

====
